---- MODULE Spec2Model ----
(***************************************************************************)
(* Model of langchain_google_alloydb_pg.AsyncAlloyDBVectorStore: the       *)
(* record codec (aadd_embeddings / aget_by_ids / adelete) and the query    *)
(* executor (similarity search, max-marginal-relevance search) over one    *)
(* backend table.                                                          *)
(*                                                                         *)
(* Python values are modelled as tagged records so that values of          *)
(* different Python / SQL types can be compared:                           *)
(*   [kind |-> "str", s]      a str                                        *)
(*   [kind |-> "vecstr", v]   the str spelling the float list v            *)
(*   [kind |-> "jsonstr", m]  the str json.dumps(m)                        *)
(*   [kind |-> "dict", m]     a dict                                       *)
(*   [kind |-> "none"]        None                                         *)
(* and the cells of a table row as                                         *)
(*   [kind |-> "text", py]    a text cell holding the characters of py     *)
(*   [kind |-> "vector", v]   a vector cell                                *)
(*   [kind |-> "json", m]     a JSON cell                                  *)
(*   [kind |-> "null"]        SQL NULL                                     *)
(***************************************************************************)
EXTENDS Integers, Sequences, FiniteSets, TLC

VARIABLES cfg, table, prev, last, nuuid, pool, engine, indexes, tasks, main

vars == <<cfg, table, prev, last, nuuid, pool, engine, indexes, tasks, main>>

----------------------------------------------------------------------------
(* Bounds of the model *)

\* largest number of uuid4 strings generated over one behaviour
MaxUuid == 2
\* largest number of rows the table grows to under writes and deletes
MaxRows == 2
\* largest k and fetch_k a search is called with
MaxK == 3
\* longest batch handed to aadd_embeddings
MaxBatch == 2
\* longest id list handed to adelete / aget_by_ids
MaxIds == 2
\* longest list of values handed to $in / $nin
MaxValues == 3
\* longest list handed to $and / $or / $not
MaxArgs == 2
\* largest number of aadd_embeddings tasks handed to the loop
MaxTasks == 3
\* largest number of aadd_embeddings calls that run interleaved
MaxCalls == 2

----------------------------------------------------------------------------
(* Python values *)

\* None where a str is expected (an absent id, an unset column name)
NoneS == "<None>"

PyNone == [kind |-> "none"]
PyStr(s) == [kind |-> "str", s |-> s]
PyVecStr(v) == [kind |-> "vecstr", v |-> v]
PyJsonStr(m) == [kind |-> "jsonstr", m |-> m]
PyDict(m) == [kind |-> "dict", m |-> m]

\* Optional[list]: None, or a list
NoList == [some |-> FALSE, v |-> <<>>]
SomeList(v) == [some |-> TRUE, v |-> v]

\* Python truthiness of an optional list (`if not ids`)
Truthy(l) == l.some /\ Len(l.v) > 0

\* Python truthiness of an optional str (`if self.metadata_json_column`)
TruthyS(s) == s # NoneS /\ s # ""

\* d[k] = v on a dict
Put(d, k, v) == [x \in (DOMAIN d) \cup {k} |-> IF x = k THEN v ELSE d[x]]

\* del d[k]
Del(d, k) == [x \in (DOMAIN d) \ {k} |-> d[x]]

EmptyDict == <<>>

\* the elements of a list
Range(s) == {s[i] : i \in DOMAIN s}

\* the first n elements of a list (s[:n])
Take(s, n) == SubSeq(s, 1, IF n < Len(s) THEN n ELSE Len(s))

\* str(uuid.uuid4()): the n-th generated id, distinct from every earlier one
Uuid(n) == "u" \o ToString(n)

----------------------------------------------------------------------------
(* Backend cells and casts *)

\* dimension of the embedding column, fixed when the table is created
VectorSize == Len(<<1, 0>>)

Null == [kind |-> "null"]
TextCell(py) == [kind |-> "text", py |-> py]
VectorCell(v) == [kind |-> "vector", v |-> v]
JsonCell(m) == [kind |-> "json", m |-> m]

CastError == [kind |-> "error"]

\* the backend's conversion of a bound parameter to the column's type
CastTo(type, bound) ==
    CASE bound.kind = "null" -> Null
      [] type = "text" -> TextCell(bound)
      [] type = "vector" ->
            IF bound.kind = "vecstr" /\ Len(bound.v) = VectorSize
            THEN VectorCell(bound.v) ELSE CastError
      [] type = "json" ->
            IF bound.kind = "jsonstr" THEN JsonCell(bound.m) ELSE CastError
      [] OTHER -> CastError

\* what the driver hands back for a cell (row[col])
PyOf(cell) ==
    CASE cell.kind = "null" -> PyNone
      [] cell.kind = "text" -> cell.py
      [] cell.kind = "vector" -> PyVecStr(cell.v)
      [] cell.kind = "json" -> PyDict(cell.m)

\* the declared type of a column of the store's table
ColumnType(c, col) ==
    IF col = c.embedding_column THEN "vector"
    ELSE IF col = c.metadata_json_column THEN "json"
    ELSE "text"

----------------------------------------------------------------------------
(* Store configurations (the fields set by __init__) *)

DefaultK == 4
DefaultFetchK == 20
\* lambda_mult is kept in halves: 1 stands for 0.5
DefaultLambdaMult == 1

StoreConfig(idc, cc, ec, mcs, jc, k, fk, lm) ==
    [id_column |-> idc, content_column |-> cc, embedding_column |-> ec,
     metadata_columns |-> mcs, metadata_json_column |-> jc,
     k |-> k, fetch_k |-> fk, lambda_mult |-> lm]

\* every constructor default
CfgDefault ==
    StoreConfig("langchain_id", "content", "embedding", <<>>,
                "langchain_metadata", DefaultK, DefaultFetchK, DefaultLambdaMult)

\* the custom table of the test-suite
CfgCustom ==
    StoreConfig("myid", "mycontent", "myembedding", <<"page", "source">>,
                "mymeta", DefaultK, DefaultFetchK, DefaultLambdaMult)

\* a table without a JSON metadata column
CfgNoJson ==
    StoreConfig("myid", "mycontent", "myembedding", <<"page">>,
                NoneS, DefaultK, DefaultFetchK, DefaultLambdaMult)

\* typed metadata columns named like the statement's bind parameters
CfgBindNames ==
    StoreConfig("myid", "mycontent", "myembedding", <<"content", "extra">>,
                "mymeta", DefaultK, DefaultFetchK, DefaultLambdaMult)

CfgBindId ==
    StoreConfig("myid", "mycontent", "myembedding", <<"langchain_id">>,
                NoneS, DefaultK, DefaultFetchK, DefaultLambdaMult)

\* the columns the store reads and writes
StoreColumns(c) ==
    {c.id_column, c.content_column, c.embedding_column}
        \cup Range(c.metadata_columns)
        \cup (IF TruthyS(c.metadata_json_column) THEN {c.metadata_json_column} ELSE {})

----------------------------------------------------------------------------
(* aadd_embeddings: the statement built for one record *)

\* a placeholder of the VALUES list: ":name", or the literal null
Param(name) == <<":", name>>
NullLiteral == <<"null">>

\* the loop over self.metadata_columns ("Add metadata"); st carries
\* values_stmt (the placeholders so far), values (the bind dict) and extra
RECURSIVE MetadataLoop(_, _, _)
MetadataLoop(cols, metadata, st) ==
    IF cols = <<>> THEN st
    ELSE LET col == Head(cols) IN
         IF col \in DOMAIN metadata
         THEN MetadataLoop(Tail(cols), metadata,
                [values_stmt |-> Append(st.values_stmt, Param(col)),
                 values |-> Put(st.values, col, PyStr(metadata[col])),
                 extra |-> Del(st.extra, col)])
         ELSE MetadataLoop(Tail(cols), metadata,
                [values_stmt |-> Append(st.values_stmt, NullLiteral),
                 values |-> st.values,
                 extra |-> st.extra])

\* insert_stmt, values_stmt, values and upsert_stmt of one loop iteration.
\* columns: the INSERT column list; params: the VALUES placeholders, each a
\* Param or NullLiteral; values: bind name -> bound value; set: the columns of
\* ON CONFLICT .. DO UPDATE SET col = EXCLUDED.col
BuildUpsert(c, id, content, embedding, metadata) ==
    LET hasJson == TruthyS(c.metadata_json_column)
        st0 == [values_stmt |-> <<Param("langchain_id"), Param("content"),
                                  Param("embedding")>>,
                values |-> ("langchain_id" :> PyStr(id))
                            @@ ("content" :> PyStr(content))
                            @@ ("embedding" :> PyVecStr(embedding)),
                extra |-> metadata]
        st1 == MetadataLoop(c.metadata_columns, metadata, st0)
    IN  [columns |-> <<c.id_column, c.content_column, c.embedding_column>>
                        \o c.metadata_columns
                        \o (IF hasJson THEN <<c.metadata_json_column>> ELSE <<>>),
         params |-> IF hasJson THEN Append(st1.values_stmt, Param("extra"))
                    ELSE st1.values_stmt,
         values |-> IF hasJson THEN Put(st1.values, "extra", PyJsonStr(st1.extra))
                    ELSE st1.values,
         conflict |-> c.id_column,
         set |-> <<c.content_column, c.embedding_column>>
                    \o (IF hasJson THEN <<c.metadata_json_column>> ELSE <<>>)
                    \o c.metadata_columns]

----------------------------------------------------------------------------
(* The backend: INSERT .. ON CONFLICT (id) DO UPDATE on a table with the     *)
(* id column as primary key.  A table is a set of rows, a row a function     *)
(* from the table's columns to cells.                                        *)

\* the value of the j-th VALUES placeholder
Bound(stmt, j) ==
    IF stmt.params[j] = NullLiteral THEN Null ELSE stmt.values[stmt.params[j][2]]

\* the proposed row (EXCLUDED), column by column
Excluded(c, stmt) ==
    [col \in Range(stmt.columns) |->
        LET j == CHOOSE i \in DOMAIN stmt.columns : stmt.columns[i] = col
        IN  CastTo(ColumnType(c, col), Bound(stmt, j))]

\* the statement is rejected: a column named twice, a value the column's
\* type does not accept, or a NULL primary key
StatementFails(c, stmt) ==
    \/ Cardinality(Range(stmt.columns)) # Len(stmt.columns)
    \/ \E col \in Range(stmt.columns) : Excluded(c, stmt)[col] = CastError
    \/ Excluded(c, stmt)[stmt.conflict] = Null

\* the table after the statement has run and been committed
ExecUpsert(c, tbl, stmt) ==
    LET new == Excluded(c, stmt)
        key == stmt.conflict
        hit == {r \in tbl : r[key] = new[key]}
    IN  IF hit = {}
        THEN tbl \cup {[col \in StoreColumns(c) |->
                          IF col \in DOMAIN new THEN new[col] ELSE Null]}
        ELSE (tbl \ hit) \cup
             {[col \in DOMAIN r |->
                 IF col \in Range(stmt.set) THEN new[col] ELSE r[col]] : r \in hit}

----------------------------------------------------------------------------
(* Connections.  `pool` is the engine's connection pool: the number of      *)
(* connections checked out and the settings in effect on the sessions of    *)
(* the idle ones.  What a call does on a connection is a sequence of        *)
(* events: the checkout, the statements executed, the release.              *)

NoConnections == [out |-> 0, settings |-> {}]

Connect == [ev |-> "connect"]
Execute(stmt) == [ev |-> "execute", stmt |-> stmt]
Release == [ev |-> "release"]

\* a connection that is given back only when every statement went through
OnConnectionLeaking(stmts) ==
    LET failing == {i \in DOMAIN stmts : ~stmts[i].ok}
        n == IF failing = {} THEN Len(stmts)
             ELSE CHOOSE i \in failing : \A j \in failing : i <= j
    IN  <<Connect>> \o [i \in 1..n |-> Execute(stmts[i])]
            \o (IF failing = {} THEN <<Release>> ELSE <<>>)

\* async with engine.connect() as conn: the statements, executed one after
\* the other on the one connection, up to the first that fails
OnConnection(stmts) ==
    LET failing == {i \in DOMAIN stmts : ~stmts[i].ok}
        n == IF failing = {} THEN Len(stmts)
             ELSE CHOOSE i \in failing : \A j \in failing : i <= j
    IN  <<Connect>> \o [i \in 1..n |-> Execute(stmts[i])] \o <<Release>>

\* the pool after the events of one connection; txn is what the open
\* transaction has SET for the session.  SET LOCAL lasts to the end of the
\* transaction, and a connection released without a commit is rolled back,
\* so a setting outlasts the release only when it was SET for the session
\* and committed
RECURSIVE PoolAfter(_, _, _)
PoolAfter(p, txn, events) ==
    IF events = <<>> THEN p
    ELSE LET e == Head(events)
         IN  CASE e.ev = "connect" ->
                    PoolAfter([p EXCEPT !.out = @ + 1], {}, Tail(events))
               [] e.ev = "release" ->
                    PoolAfter([p EXCEPT !.out = @ - 1], {}, Tail(events))
               [] e.ev = "execute" /\ e.stmt.stmt = "set" /\ e.stmt.ok ->
                    PoolAfter(p, txn \cup {e.stmt.option}, Tail(events))
               [] e.ev = "execute" /\ e.stmt.stmt = "commit" /\ e.stmt.ok ->
                    PoolAfter([p EXCEPT !.settings = @ \cup txn], {}, Tail(events))
               [] OTHER -> PoolAfter(p, txn, Tail(events))

\* the statements among the events of a connection
Statements(events) ==
    LET executed == SelectSeq(events, LAMBDA e : e.ev = "execute")
    IN  [i \in DOMAIN executed |-> executed[i].stmt]

\* the connections of a loop that opens one per record, from record i on:
\* log holds the statements of every record in the order they were executed
RECURSIVE RecordConnections(_, _)
RecordConnections(log, i) ==
    IF \A j \in DOMAIN log : log[j].record < i THEN <<>>
    ELSE OnConnection(SelectSeq(log, LAMBDA s : s.record = i))
            \o RecordConnections(log, i + 1)

----------------------------------------------------------------------------
(* Calls.  `last` records the call in progress of the one caller: its       *)
(* arguments, whether it raised, the value it returned and the statements   *)
(* it executed; `prev` is the table as it was when the call started.  The   *)
(* caller makes its next call after it has taken the result (Return).       *)

NoOp == [op |-> "none", args |-> <<>>, raised |-> FALSE, value |-> <<>>, log |-> <<>>,
         local |-> <<>>]

Idle == last.op = "none"

Return ==
    /\ ~Idle
    /\ last' = NoOp
    /\ prev' = table
    /\ UNCHANGED <<cfg, table, nuuid, pool, engine, indexes, tasks, main>>

----------------------------------------------------------------------------
(* Construction.  The columns of a table are what information_schema        *)
(* reports of it: a list of <<column_name, data_type, udt_name>> in the     *)
(* table's order; data_type is "USER-DEFINED" for every type that an        *)
(* extension or the user defines, the vector type among them.               *)

\* sub in s, of two strings
Contains(s, sub) ==
    \E i \in 1..(Len(s) - Len(sub) + 1) : SubSeq(s, i, i + Len(sub) - 1) = sub

ColumnNames(columns) == {columns[i][1] : i \in DOMAIN columns}

\* columns[name], the data_type of a column that exists
DataType(columns, name) ==
    LET i == CHOOSE j \in DOMAIN columns : columns[j][1] = name
    IN  columns[i][2]

\* the names that are left, in order, after del all_columns[name] for every
\* name of dels; KeyError when a name is not there (any more)
RECURSIVE DelAll(_, _)
DelAll(names, dels) ==
    IF dels = <<>> THEN [err |-> FALSE, names |-> names]
    ELSE IF Head(dels) \notin Range(names) THEN [err |-> TRUE, names |-> <<>>]
    ELSE DelAll(SelectSeq(names, LAMBDA n : n # Head(dels)), Tail(dels))

\* __init__ called with `key`: only the class's own key gets a store
CreateKey == "__create_key"
Constructor(key, store) ==
    IF key # CreateKey THEN [raised |-> TRUE, exc |-> "Exception", store |-> <<>>]
    ELSE [raised |-> FALSE, exc |-> "", store |-> store]

CreateFailed(exc, conn) == [raised |-> TRUE, exc |-> exc, store |-> <<>>, conn |-> conn]

\* AsyncAlloyDBVectorStore.create over a table of the given columns
Create(columns, a) ==
    LET conn == OnConnection(<<[stmt |-> "select columns", ok |-> TRUE]>>)
        names == ColumnNames(columns)
        json == IF a.metadata_json_column \notin names THEN NoneS
                ELSE a.metadata_json_column
        dels == a.ignore_metadata_columns.v
                    \o <<a.id_column, a.content_column, a.embedding_column>>
        left == DelAll([i \in DOMAIN columns |-> columns[i][1]], dels)
        metadata_columns == IF Truthy(a.ignore_metadata_columns) THEN left.names
                            ELSE a.metadata_columns
        made == Constructor(CreateKey,
                    [id_column |-> a.id_column, content_column |-> a.content_column,
                     embedding_column |-> a.embedding_column,
                     metadata_columns |-> metadata_columns,
                     metadata_json_column |-> json,
                     k |-> a.k, fetch_k |-> a.fetch_k, lambda_mult |-> a.lambda_mult,
                     index_query_options |-> a.index_query_options])
    IN  IF Len(a.metadata_columns) > 0 /\ Truthy(a.ignore_metadata_columns)
        THEN CreateFailed("ValueError", <<>>)
        ELSE IF a.id_column \notin names THEN CreateFailed("ValueError", conn)
        ELSE IF a.content_column \notin names THEN CreateFailed("ValueError", conn)
        ELSE IF /\ DataType(columns, a.content_column) # "text"
                /\ ~Contains(DataType(columns, a.content_column), "char")
        THEN CreateFailed("ValueError", conn)
        ELSE IF a.embedding_column \notin names THEN CreateFailed("ValueError", conn)
        ELSE IF DataType(columns, a.embedding_column) # "USER-DEFINED"
        THEN CreateFailed("ValueError", conn)
        ELSE IF \E i \in DOMAIN a.metadata_columns : a.metadata_columns[i] \notin names
        THEN CreateFailed("ValueError", conn)
        ELSE IF Truthy(a.ignore_metadata_columns) /\ left.err
        THEN CreateFailed("KeyError", conn)
        ELSE [raised |-> FALSE, exc |-> "", store |-> made.store, conn |-> conn]

\* a call of create; the caller goes on with the store it got
create(columns, a) ==
    LET out == Create(columns, a)
    IN  /\ Idle
        /\ prev' = table
        /\ last' = [op |-> "create", args |-> [columns |-> columns, a |-> a],
                    raised |-> out.raised, value |-> out.store,
                    log |-> Statements(out.conn),
                    local |-> [exc |-> out.exc, conn |-> out.conn]]
        /\ cfg' = IF out.raised THEN cfg ELSE out.store
        /\ pool' = PoolAfter(pool, {}, out.conn)
        /\ UNCHANGED <<table, nuuid, engine, indexes, tasks, main>>

\* AsyncAlloyDBVectorStore(key, ..) called directly
init(key, a) ==
    LET out == Constructor(key, a)
    IN  /\ Idle
        /\ prev' = table
        /\ last' = [op |-> "__init__", args |-> [key |-> key, a |-> a],
                    raised |-> out.raised, value |-> out.store, log |-> <<>>,
                    local |-> [exc |-> out.exc, conn |-> <<>>]]
        /\ UNCHANGED <<cfg, table, nuuid, pool, engine, indexes, tasks, main>>

----------------------------------------------------------------------------
(* The engine and its bridge from synchronous callers to the event loop.    *)
(* `engine` holds whether an AlloyDBEngine has been made and whether it     *)
(* owns a loop (self._loop), the tables of the database, and the coroutine  *)
(* in flight: what it still has to execute, what it has executed, and its   *)
(* result or exception once it is done.  A synchronous caller is a thread   *)
(* other than the loop's; it takes the result when future.result() returns. *)

NoCoro ==
    [state |-> "none", method |-> "", args |-> <<>>, sync |-> FALSE, todo |-> <<>>,
     log |-> <<>>, result |-> <<>>, exc |-> "", before |-> {}, conn |-> <<>>]

NoEngine == [made |-> FALSE, loop |-> FALSE, db |-> {}, coro |-> NoCoro]

\* one statement on the tables of the database
ExecOnDb(db, s) ==
    CASE s.stmt = "create table" ->
            IF s.table \in db THEN [db |-> db, exc |-> "DuplicateTableError", rows |-> <<>>]
            ELSE [db |-> db \cup {s.table}, exc |-> "", rows |-> <<>>]
      [] s.stmt = "create table if not exists" ->
            [db |-> db \cup {s.table}, exc |-> "", rows |-> <<>>]
      [] s.stmt = "drop table if exists" ->
            [db |-> db \ {s.table}, exc |-> "", rows |-> <<>>]
      [] s.stmt = "select" ->
            [db |-> db, exc |-> "", rows |-> IF s.table \in db THEN <<s.table>> ELSE <<>>]
      [] OTHER -> [db |-> db, exc |-> "", rows |-> <<>>]

Sql(stmt, table_name) == [stmt |-> stmt, table |-> table_name]

\* the statements that the coroutine of a method executes, one _aexecute or
\* _afetch each
CoroutineOf(method, a) ==
    CASE method \in {"_execute", "_fetch"} -> <<a.query>>
      [] method = "init_vectorstore_table" ->
            <<Sql("create extension", "vector")>>
                \o (IF a.overwrite_existing
                    THEN <<Sql("drop table if exists", a.table_name)>> ELSE <<>>)
                \o <<Sql("create table", a.table_name)>>
      [] method = "init_chat_history_table" ->
            <<Sql("create table if not exists", a.table_name)>>
      [] method = "init_document_table" -> <<Sql("create table", a.table_name)>>

\* the coroutine object of a call, not yet run
Coroutine(method, a, sync, db) ==
    [state |-> "created", method |-> method, args |-> a, sync |-> sync,
     todo |-> CoroutineOf(method, a), log |-> <<>>, result |-> <<>>, exc |-> "",
     before |-> db, conn |-> <<>>]

\* a bridge that submits the coroutine whether or not there is a loop; C18
\* tells it from RunAsSync
RunAsSyncUnguarded(e, coro) ==
    [raised |-> FALSE, exc |-> "", coro |-> [coro EXCEPT !.state = "pending"]]

\* _run_as_sync up to the submission: without a loop it raises and the
\* coroutine is left as it was made
RunAsSync(e, coro) ==
    IF ~e.loop THEN [raised |-> TRUE, exc |-> "Exception", coro |-> coro]
    ELSE [raised |-> FALSE, exc |-> "", coro |-> [coro EXCEPT !.state = "pending"]]

\* a future whose result() returns at once; C19 tells it from ResultReady
ResultReadyAtOnce(coro) == TRUE

\* future.result() returns once the coroutine is done
ResultReady(coro) == coro.state = "done"

\* the statements of one _aexecute (the query and the commit) or _afetch
\* (the query) on its connection
EngineStatements(s, failed) ==
    <<[stmt |-> s.stmt, table |-> s.table, ok |-> ~failed]>>
        \o (IF s.stmt = "select" THEN <<>>
            ELSE <<[stmt |-> "commit", table |-> "", ok |-> TRUE]>>)

\* the coroutine after its next statement, and the database after it
StepCoroutine(db, coro) ==
    LET s == Head(coro.todo)
        out == ExecOnDb(db, s)
        failed == out.exc # ""
        rest == IF failed THEN <<>> ELSE Tail(coro.todo)
    IN  [db |-> out.db,
         coro |-> [coro EXCEPT !.todo = rest,
                               !.conn = @ \o OnConnection(EngineStatements(s, failed)),
                               !.log = Append(@, [stmt |-> s.stmt, table |-> s.table,
                                                  ok |-> ~failed]),
                               !.state = IF rest = <<>> THEN "done" ELSE "running",
                               !.exc = out.exc,
                               !.result = IF s.stmt = "select" THEN out.rows ELSE <<>>]]

\* AlloyDBEngine.from_engine: an engine around a pool made elsewhere, no loop
from_engine ==
    /\ Idle
    /\ engine.coro = NoCoro
    /\ engine' = [engine EXCEPT !.made = TRUE, !.loop = FALSE]
    /\ UNCHANGED <<cfg, table, prev, last, nuuid, pool, indexes, tasks, main>>

\* AlloyDBEngine.from_instance: a new loop run by a new daemon thread
from_instance ==
    /\ Idle
    /\ engine.coro = NoCoro
    /\ engine' = [engine EXCEPT !.made = TRUE, !.loop = TRUE]
    /\ UNCHANGED <<cfg, table, prev, last, nuuid, pool, indexes, tasks, main>>

\* what the caller gets of a coroutine
Outcome(e, coro) ==
    [op |-> coro.method, args |-> coro.args, raised |-> coro.exc # "",
     value |-> coro.result, log |-> coro.log,
     local |-> [exc |-> coro.exc, sync |-> coro.sync, loop |-> e.loop,
                state |-> coro.state, before |-> coro.before, conn |-> coro.conn]]

\* a synchronous method called from a thread that is not the loop's: the
\* coroutine is made, then _run_as_sync raises or submits it and blocks
sync_call(method, a) ==
    LET out == RunAsSync(engine, Coroutine(method, a, TRUE, engine.db))
    IN  /\ Idle
        /\ engine.made
        /\ engine.coro = NoCoro
        /\ IF out.raised
           THEN /\ last' = Outcome(engine, [out.coro EXCEPT !.exc = out.exc])
                /\ UNCHANGED engine
           ELSE /\ engine' = [engine EXCEPT !.coro = out.coro]
                /\ UNCHANGED last
        /\ UNCHANGED <<cfg, table, prev, nuuid, pool, indexes, tasks, main>>

\* the async counterpart awaited by a caller that runs on a loop
async_call(method, a) ==
    /\ Idle
    /\ engine.made
    /\ engine.coro = NoCoro
    /\ engine' = [engine EXCEPT
                     !.coro = [Coroutine(method, a, FALSE, engine.db)
                                  EXCEPT !.state = "pending"]]
    /\ UNCHANGED <<cfg, table, prev, last, nuuid, pool, indexes, tasks, main>>

\* the loop runs the coroutine up to its next await
loop_step ==
    LET out == StepCoroutine(engine.db, engine.coro)
    IN  /\ engine.coro.state \in {"pending", "running"}
        /\ engine' = [engine EXCEPT !.db = out.db, !.coro = out.coro]
        /\ pool' = PoolAfter(pool, {}, OnConnection(EngineStatements(Head(engine.coro.todo),
                                                    out.coro.exc # "")))
        /\ UNCHANGED <<cfg, table, prev, last, nuuid, indexes, tasks, main>>

\* the caller goes on: future.result() of a synchronous call returns or
\* raises, the await of an async call completes
take_result ==
    /\ Idle
    /\ engine.coro.state \in {"pending", "running", "done"}
    /\ IF engine.coro.sync THEN ResultReady(engine.coro)
       ELSE engine.coro.state = "done"
    /\ last' = Outcome(engine, engine.coro)
    /\ engine' = [engine EXCEPT !.coro = NoCoro]
    /\ UNCHANGED <<cfg, table, prev, nuuid, pool, indexes, tasks, main>>

----------------------------------------------------------------------------
(* aadd_embeddings *)

\* ids as filled in before the loop: uuid4 strings for every text when ids is
\* None or empty, else for the entries that are None
FilledIds(texts, ids, base) ==
    IF ~Truthy(ids)
    THEN [i \in 1..Len(texts) |-> Uuid(base + i)]
    ELSE [i \in 1..Len(ids.v) |->
            IF ids.v[i] # NoneS THEN ids.v[i]
            ELSE Uuid(base + Cardinality({j \in 1..i : ids.v[j] = NoneS}))]

\* the number of uuid4 strings FilledIds generates
FreshCount(texts, ids) ==
    IF ~Truthy(ids) THEN Len(texts)
    ELSE Cardinality({j \in 1..Len(ids.v) : ids.v[j] = NoneS})

\* metadatas as filled in before the loop
FilledMetadatas(texts, metadatas) ==
    IF ~Truthy(metadatas) THEN [i \in 1..Len(texts) |-> EmptyDict] ELSE metadatas.v

Min(a, b) == IF a < b THEN a ELSE b

\* the length of zip(ids, texts, embeddings, metadatas)
ZipLen(ids, texts, embeddings, metadatas) ==
    Min(Min(Len(ids), Len(texts)), Min(Len(embeddings), Len(metadatas)))

\* the for loop from iteration i on: one statement and one commit per record,
\* each on a connection of its own; a failing statement raises out of the loop
RECURSIVE InsertLoop(_, _, _, _, _, _, _, _)
RECURSIVE InsertLoopUndoing(_, _, _, _, _, _, _, _)
\* a loop that on a failed record takes back the rows of the records before
\* it; C6 tells it from InsertLoop
InsertLoopUndoing(c, tbl, ids, texts, embeddings, metadatas, i, log) ==
    IF i > ZipLen(ids, texts, embeddings, metadatas)
    THEN [table |-> tbl, log |-> log, raised |-> FALSE]
    ELSE LET stmt == BuildUpsert(c, ids[i], texts[i], embeddings[i], metadatas[i])
         IN  IF StatementFails(c, stmt)
             THEN [table |-> {r \in tbl : \A j \in 1..(i - 1) :
                                 PyOf(r[c.id_column]) # PyStr(ids[j])},
                   log |-> Append(log, [stmt |-> "upsert", record |-> i, ok |-> FALSE]),
                   raised |-> TRUE]
             ELSE InsertLoopUndoing(c, ExecUpsert(c, tbl, stmt), ids, texts,
                                    embeddings, metadatas, i + 1,
                                    log \o <<[stmt |-> "upsert", record |-> i, ok |-> TRUE],
                                             [stmt |-> "commit", record |-> i, ok |-> TRUE]>>)

InsertLoop(c, tbl, ids, texts, embeddings, metadatas, i, log) ==
    IF i > ZipLen(ids, texts, embeddings, metadatas)
    THEN [table |-> tbl, log |-> log, raised |-> FALSE]
    ELSE LET stmt == BuildUpsert(c, ids[i], texts[i], embeddings[i], metadatas[i])
         IN  IF StatementFails(c, stmt)
             THEN [table |-> tbl,
                   log |-> Append(log, [stmt |-> "upsert", record |-> i, ok |-> FALSE]),
                   raised |-> TRUE]
             ELSE InsertLoop(c, ExecUpsert(c, tbl, stmt), ids, texts, embeddings,
                             metadatas, i + 1,
                             log \o <<[stmt |-> "upsert", record |-> i, ok |-> TRUE],
                                      [stmt |-> "commit", record |-> i, ok |-> TRUE]>>)

\* the outcome of aadd_embeddings(texts, embeddings, metadatas, ids)
AddEmbeddings(c, tbl, base, texts, embeddings, metadatas, ids) ==
    LET fids == FilledIds(texts, ids, base)
        run == InsertLoop(c, tbl, fids, texts, embeddings,
                          FilledMetadatas(texts, metadatas), 1, <<>>)
    IN  [table |-> run.table, log |-> run.log, raised |-> run.raised,
         value |-> fids]

aadd_embeddings(texts, embeddings, metadatas, ids) ==
    LET out == AddEmbeddings(cfg, table, nuuid, texts, embeddings, metadatas, ids)
    IN  /\ Idle
        /\ nuuid + FreshCount(texts, ids) <= MaxUuid
        /\ table' = out.table
        /\ prev' = table
        /\ nuuid' = nuuid + FreshCount(texts, ids)
        /\ last' = [op |-> "aadd_embeddings",
                    args |-> [texts |-> texts, embeddings |-> embeddings,
                              metadatas |-> metadatas, ids |-> ids],
                    raised |-> out.raised, value |-> out.value, log |-> out.log,
                    local |-> [conn |-> RecordConnections(out.log, 1)]]
        /\ pool' = PoolAfter(pool, {}, RecordConnections(out.log, 1))
        /\ UNCHANGED <<cfg, engine, indexes, tasks, main>>

----------------------------------------------------------------------------
(* adelete *)

\* DELETE FROM table WHERE id_column in (ids)
\* a delete that removes the rows of the first listed id only; C3 tells it
\* from ExecDelete
ExecDeleteFirstOnly(c, tbl, ids) ==
    {r \in tbl : PyOf(r[c.id_column]) # PyStr(ids[1])}

ExecDelete(c, tbl, ids) ==
    {r \in tbl : PyOf(r[c.id_column]) \notin {PyStr(ids[i]) : i \in DOMAIN ids}}

\* the statement and the commit of adelete
DeleteStatements ==
    <<[stmt |-> "delete", record |-> 0, ok |-> TRUE],
      [stmt |-> "commit", record |-> 0, ok |-> TRUE]>>

adelete(ids) ==
    /\ Idle
    /\ prev' = table
    /\ IF ~Truthy(ids)
       THEN /\ table' = table
            /\ last' = [op |-> "adelete", args |-> [ids |-> ids],
                        raised |-> FALSE, value |-> FALSE, log |-> <<>>,
                        local |-> [conn |-> <<>>]]
            /\ pool' = pool
       ELSE /\ table' = ExecDelete(cfg, table, ids.v)
            /\ last' = [op |-> "adelete", args |-> [ids |-> ids],
                        raised |-> FALSE, value |-> TRUE,
                        log |-> DeleteStatements,
                        local |-> [conn |-> OnConnection(DeleteStatements)]]
            /\ pool' = PoolAfter(pool, {}, OnConnection(DeleteStatements))
    /\ UNCHANGED <<cfg, nuuid, engine, indexes, tasks, main>>

----------------------------------------------------------------------------
(* aget_by_ids *)

\* the rows of a result set in the order the backend returns them: an
\* arbitrary but fixed order
RECURSIVE RowsInOrder(_)
RowsInOrder(rows) ==
    IF rows = {} THEN <<>>
    ELSE LET r == CHOOSE x \in rows : TRUE
         IN  <<r>> \o RowsInOrder(rows \ {r})

\* the metadata of a document built from a row: the JSON column's dict (or {}
\* when the column is unset, NULL or empty), then every typed column assigned
DecodeMetadata(c, row) ==
    LET json == IF /\ TruthyS(c.metadata_json_column)
                   /\ row[c.metadata_json_column].kind = "json"
                   /\ DOMAIN row[c.metadata_json_column].m # {}
                THEN [x \in DOMAIN row[c.metadata_json_column].m |->
                        PyStr(row[c.metadata_json_column].m[x])]
                ELSE EmptyDict
        typed == Range(c.metadata_columns)
    IN  [x \in (DOMAIN json) \cup typed |->
            IF x \in typed THEN PyOf(row[x]) ELSE json[x]]

\* Document(page_content=row[content_column], metadata=metadata, id=str(row[id_column]))
DecodeDocument(c, row) ==
    [page_content |-> PyOf(row[c.content_column]),
     metadata |-> DecodeMetadata(c, row),
     id |-> PyOf(row[c.id_column])]

\* SELECT .. WHERE id_column IN (ids)
SelectByIds(c, tbl, ids) ==
    {r \in tbl : PyOf(r[c.id_column]) \in {PyStr(ids[i]) : i \in DOMAIN ids}}

\* the outcome of aget_by_ids(ids); WHERE "id" IN () is a syntax error of the
\* backend
GetByIds(c, tbl, ids) ==
    IF Len(ids) = 0
    THEN [raised |-> TRUE, value |-> <<>>,
          log |-> <<[stmt |-> "select", record |-> 0, ok |-> FALSE]>>]
    ELSE LET rows == RowsInOrder(SelectByIds(c, tbl, ids))
         IN  [raised |-> FALSE,
              value |-> [i \in DOMAIN rows |-> DecodeDocument(c, rows[i])],
              log |-> <<[stmt |-> "select", record |-> 0, ok |-> TRUE]>>]

aget_by_ids(ids) ==
    LET out == GetByIds(cfg, table, ids)
    IN  /\ Idle
        /\ prev' = table
        /\ last' = [op |-> "aget_by_ids", args |-> [ids |-> ids],
                    raised |-> out.raised, value |-> out.value, log |-> out.log,
                    local |-> [conn |-> OnConnection(out.log)]]
        /\ pool' = PoolAfter(pool, {}, OnConnection(out.log))
        /\ UNCHANGED <<cfg, table, nuuid, engine, indexes, tasks, main>>

----------------------------------------------------------------------------
(* Filters.  A dict is a list of <<key, value>> items in insertion order; a  *)
(* value is a str, an int, a bool, None, a dict ([kind |-> "dict", items])   *)
(* or a list ([kind |-> "list", v]).  The WHERE clause the compiler writes   *)
(* is kept as the expression it spells:                                      *)
(*   [node |-> "cmp", field, native, literal]    (field native literal)      *)
(*   [node |-> "between", field, low, high]      (field BETWEEN low AND high)*)
(*   [node |-> "in", field, negated, values]     (field [NOT] IN values)     *)
(*   [node |-> "like", field, insensitive, literal]  (field [I]LIKE literal) *)
(*   [node |-> "isnull", field, negated]         (field IS [NOT] NULL)       *)
(*   [node |-> "and" / "or", args]               (a1 AND a2 ..)              *)
(*   [node |-> "not", arg]                       NOT a                       *)
(* A literal is [quoted, v]: the value v as it prints, between quotes or     *)
(* not.  The values of IN are the characters of str(tuple(..)), token by     *)
(* token.                                                                    *)

PyInt(n) == [kind |-> "int", n |-> n]
PyBool(b) == [kind |-> "bool", b |-> b]

PyItems(items) == [kind |-> "dict", items |-> items]
PyList(v) == [kind |-> "list", v |-> v]

COMPARISONS_TO_NATIVE ==
    [op \in {"$eq", "$ne", "$lt", "$lte", "$gt", "$gte"} |->
        CASE op = "$eq" -> "="
          [] op = "$ne" -> "!="
          [] op = "$lt" -> "<"
          [] op = "$lte" -> "<="
          [] op = "$gt" -> ">"
          [] op = "$gte" -> ">="]

SPECIAL_CASED_OPERATORS == {"$in", "$nin", "$between", "$exists"}

TEXT_OPERATORS == {"$like", "$ilike"}

LOGICAL_OPERATORS == {"$and", "$or", "$not"}

SUPPORTED_OPERATORS ==
    (DOMAIN COMPARISONS_TO_NATIVE) \cup TEXT_OPERATORS \cup LOGICAL_OPERATORS
        \cup SPECIAL_CASED_OPERATORS

\* the characters of a str
Chars(s) == [i \in 1..Len(s) |-> SubSeq(s, i, i)]

\* key.startswith("$")
StartsWithDollar(key) == Len(key) > 0 /\ Chars(key)[1] = "$"

\* key.lower()
Lower(key) ==
    CASE key = "$AND" -> "$and"
      [] key = "$OR" -> "$or"
      [] key = "$Or" -> "$or"
      [] key = "$NOT" -> "$not"
      [] OTHER -> key

Digits == {"0", "1", "2", "3", "4", "5", "6", "7", "8", "9"}

Letters ==
    {"a", "b", "c", "d", "e", "f", "g", "h", "i", "j", "k", "l", "m", "n", "o",
     "p", "q", "r", "s", "t", "u", "v", "w", "x", "y", "z", "_"}

\* a test that takes any name that is not empty; C13 tells it from
\* IsIdentifier
IsIdentifierAny(field) == Len(field) > 0

\* field.isidentifier(), for names in lower-case ASCII
IsIdentifier(field) ==
    /\ Len(field) > 0
    /\ Chars(field)[1] \in Letters
    /\ \A i \in DOMAIN Chars(field) : Chars(field)[i] \in Letters \cup Digits

\* the compiler raises: ValueError, the malformed-filter error
FilterError == [err |-> TRUE, clause |-> <<>>, exc |-> "ValueError"]
\* .. NotImplementedError
NotImplemented == [err |-> TRUE, clause |-> <<>>, exc |-> "NotImplementedError"]
\* .. TypeError, of a value that cannot be iterated or unpacked
NotIterable == [err |-> TRUE, clause |-> <<>>, exc |-> "TypeError"]
\* the compiler returns the clause x
Clause(x) == [err |-> FALSE, clause |-> x, exc |-> ""]

\* what iterating a value yields: the elements of a list, the characters of
\* a str, the keys of a dict; nothing else iterates
Iterable(value) == value.kind \in {"list", "str", "dict"}
Iter(value) ==
    CASE value.kind = "list" -> value.v
      [] value.kind = "str" -> [i \in 1..Len(value.s) |-> PyStr(Chars(value.s)[i])]
      [] value.kind = "dict" -> [i \in DOMAIN value.items |-> PyStr(value.items[i][1])]

\* f"{value}": the value as it prints, without quotes
Inlined(value) == [quoted |-> FALSE, v |-> value]
\* f"'{value}'": the value as it prints, between quotes
Quoted(value) == [quoted |-> TRUE, v |-> value]
\* repr(value) of a str or a number: a str between quotes
Repr(value) == [quoted |-> value.kind = "str", v |-> value]

Tok(t) == [tok |-> t]
Lit(l) == [tok |-> "literal", literal |-> l]

\* str(tuple(vals)): "()", "(v1,)" or "(v1, v2, .., vn)"
TupleText(vals) ==
    LET RECURSIVE Rest(_)
        Rest(i) == IF i > Len(vals) THEN <<>>
                   ELSE <<Tok(", "), Lit(Repr(vals[i]))>> \o Rest(i + 1)
    IN  IF Len(vals) = 0 THEN <<Tok("("), Tok(")")>>
        ELSE IF Len(vals) = 1 THEN <<Tok("("), Lit(Repr(vals[1])), Tok(","), Tok(")")>>
        ELSE <<Tok("("), Lit(Repr(vals[1]))>> \o Rest(2) \o <<Tok(")")>>

\* low, high = filter_value; (field BETWEEN low AND high)
Between(field, filter_value) ==
    IF ~Iterable(filter_value) THEN NotIterable
    ELSE IF Len(Iter(filter_value)) # 2 THEN FilterError
    ELSE Clause([node |-> "between", field |-> field,
                 low |-> Inlined(Iter(filter_value)[1]),
                 high |-> Inlined(Iter(filter_value)[2])])

\* $in and $nin: every value a str, an int or a float and no bool
Membership(field, operator, filter_value) ==
    IF ~Iterable(filter_value) THEN NotIterable
    ELSE IF \E i \in DOMAIN Iter(filter_value) :
                Iter(filter_value)[i].kind \notin {"str", "int"}
    THEN NotImplemented
    ELSE Clause([node |-> "in", field |-> field, negated |-> operator = "$nin",
                 values |-> TupleText(Iter(filter_value))])

\* a value as it is written into the clause: a str between quotes, anything
\* else as it prints
Literal(value) == [quoted |-> value.kind = "str", v |-> value]

\* _handle_field_filter; a logical operator in operator position falls
\* through to NotImplementedError
HandleFieldFilter(field, value) ==
    IF StartsWithDollar(field) \/ ~IsIdentifier(field) THEN FilterError
    ELSE IF value.kind = "dict" /\ Len(value.items) # 1 THEN FilterError
    ELSE LET operator == IF value.kind = "dict" THEN value.items[1][1] ELSE "$eq"
             filter_value == IF value.kind = "dict" THEN value.items[1][2] ELSE value
         IN  IF operator \notin SUPPORTED_OPERATORS THEN FilterError
             ELSE IF operator \in DOMAIN COMPARISONS_TO_NATIVE
             THEN Clause([node |-> "cmp", field |-> field,
                          native |-> COMPARISONS_TO_NATIVE[operator],
                          literal |-> Literal(filter_value)])
             ELSE IF operator = "$between" THEN Between(field, filter_value)
             ELSE IF operator \in {"$in", "$nin"}
             THEN Membership(field, operator, filter_value)
             ELSE IF operator \in {"$like", "$ilike"}
             THEN Clause([node |-> "like", field |-> field,
                          insensitive |-> operator = "$ilike",
                          literal |-> Quoted(filter_value)])
             ELSE IF operator = "$exists"
             THEN IF filter_value.kind # "bool" THEN FilterError
                  ELSE Clause([node |-> "isnull", field |-> field,
                               negated |-> filter_value.b])
             ELSE NotImplemented

\* the clauses of a list, or the error of the first one that raises
AllClauses(cs) ==
    IF \E i \in DOMAIN cs : cs[i].err
    THEN cs[CHOOSE i \in DOMAIN cs : cs[i].err /\ \A j \in 1..(i - 1) : ~cs[j].err]
    ELSE Clause([i \in DOMAIN cs |-> cs[i].clause])

\* a join that writes the clauses last to first; C12 tells it from Joined
JoinedBackwards(op, cs) ==
    IF cs.err THEN cs
    ELSE IF Len(cs.clause) = 0 THEN FilterError
    ELSE IF Len(cs.clause) = 1 THEN Clause(cs.clause[1])
    ELSE Clause([node |-> op,
                 args |-> [i \in DOMAIN cs.clause |->
                             cs.clause[Len(cs.clause) + 1 - i]]])

\* "(c1 OP c2 ..)" for more than one clause, the clause itself for one
Joined(op, cs) ==
    IF cs.err THEN cs
    ELSE IF Len(cs.clause) = 0 THEN FilterError
    ELSE IF Len(cs.clause) = 1 THEN Clause(cs.clause[1])
    ELSE Clause([node |-> op, args |-> cs.clause])

RECURSIVE CreateFilterClause(_)
CreateFilterClause(filters) ==
    IF filters.kind # "dict" THEN FilterError
    ELSE IF Len(filters.items) = 1
    THEN LET key == filters.items[1][1]
             value == filters.items[1][2]
         IN  IF ~StartsWithDollar(key) THEN HandleFieldFilter(key, value)
             ELSE IF Lower(key) \notin {"$and", "$or", "$not"} THEN FilterError
             ELSE IF Lower(key) \in {"$and", "$or"}
             THEN IF value.kind # "list" THEN FilterError
                  ELSE Joined(IF Lower(key) = "$and" THEN "and" ELSE "or",
                              AllClauses([i \in DOMAIN value.v |->
                                            CreateFilterClause(value.v[i])]))
             ELSE IF value.kind = "list"
                  THEN LET cs == AllClauses([i \in DOMAIN value.v |->
                                               CreateFilterClause(value.v[i])])
                       IN  IF cs.err THEN cs
                           ELSE Clause([node |-> "and",
                                        args |-> [i \in DOMAIN cs.clause |->
                                                    [node |-> "not", arg |-> cs.clause[i]]]])
                  ELSE IF value.kind = "dict"
                  THEN LET c1 == CreateFilterClause(value)
                       IN  IF c1.err THEN c1
                           ELSE Clause([node |-> "not", arg |-> c1.clause])
                  ELSE FilterError
    ELSE IF Len(filters.items) > 1
    THEN IF \E i \in DOMAIN filters.items : StartsWithDollar(filters.items[i][1])
         THEN FilterError
         ELSE Joined("and",
                     AllClauses([i \in DOMAIN filters.items |->
                                   HandleFieldFilter(filters.items[i][1],
                                                     filters.items[i][2])]))
    ELSE Clause(<<>>)

\* a call of _create_filter_clause by itself
create_filter_clause(filters) ==
    LET out == CreateFilterClause(filters)
    IN  /\ Idle
        /\ prev' = table
        /\ last' = [op |-> "_create_filter_clause", args |-> [filters |-> filters],
                    raised |-> out.err, value |-> out.clause, log |-> <<>>,
                    local |-> [exc |-> out.exc]]
        /\ UNCHANGED <<cfg, table, nuuid, pool, engine, indexes, tasks, main>>

----------------------------------------------------------------------------
(* The backend's reading of a WHERE clause: SQL's three-valued logic over    *)
(* "true", "false" and "null"; "error" when the statement is rejected.       *)

RECURSIVE EvalSql(_, _, _)
EvalSql(c, row, x) ==
    CASE x = <<>> -> "error"
      [] x.node = "cmp" ->
            IF x.field \notin DOMAIN row \/ ColumnType(c, x.field) # "text"
                         \/ ~x.literal.quoted
            THEN "error"
            ELSE IF row[x.field] = Null THEN "null"
            ELSE (CASE x.native = "=" ->
                         IF row[x.field].py = x.literal.v THEN "true" ELSE "false"
                    [] x.native = "!=" ->
                         IF row[x.field].py # x.literal.v THEN "true" ELSE "false")
      [] x.node = "isnull" ->
            IF x.field \notin DOMAIN row THEN "error"
            ELSE IF (row[x.field] = Null) = ~x.negated THEN "true" ELSE "false"
      [] x.node = "in" ->
            LET lits == {x.values[i].literal :
                            i \in {j \in DOMAIN x.values : x.values[j].tok = "literal"}}
            IN  IF x.field \notin DOMAIN row \/ ColumnType(c, x.field) # "text"
                   \/ Tok(",") \in Range(x.values) \/ lits = {}
                   \/ \E l \in lits : ~l.quoted
                THEN "error"
                ELSE IF row[x.field] = Null THEN "null"
                ELSE IF (row[x.field].py \in {l.v : l \in lits}) = ~x.negated
                THEN "true" ELSE "false"
      [] x.node = "not" ->
            LET a == EvalSql(c, row, x.arg)
            IN  (CASE a = "true" -> "false"
                   [] a = "false" -> "true"
                   [] OTHER -> a)
      [] x.node \in {"and", "or"} ->
            LET as == {EvalSql(c, row, x.args[i]) : i \in DOMAIN x.args}
                zero == IF x.node = "and" THEN "false" ELSE "true"
                one == IF x.node = "and" THEN "true" ELSE "false"
            IN  IF "error" \in as \/ as = {} THEN "error"
                ELSE IF zero \in as THEN zero
                ELSE IF "null" \in as THEN "null"
                ELSE one

\* a row no table holds, for the checks the backend makes before it reads one
TypeRow(c) == [col \in StoreColumns(c) |-> Null]

----------------------------------------------------------------------------
(* Distances.  Cosine similarity is kept in 25ths; the embeddings drawn have *)
(* whole norms, which makes every value exact.                               *)

Dot(a, b) ==
    LET RECURSIVE Sum(_)
        Sum(i) == IF i = 0 THEN 0 ELSE a[i] * b[i] + Sum(i - 1)
    IN  Sum(Len(a))

Norm(a) == CHOOSE n \in 0..Dot(a, a) : n * n = Dot(a, a)

CosineSimilarity(a, b) == (Dot(a, b) * 25) \div (Norm(a) * Norm(b))

\* DistanceStrategy.COSINE_DISTANCE: the value of `embedding <=> query`, the
\* operator of ORDER BY, and of cosine_distance(embedding, query), the search
\* function
OperatorDistance(a, b) == 25 - CosineSimilarity(a, b)
SearchFunction(a, b) == 25 - CosineSimilarity(a, b)

----------------------------------------------------------------------------
(* __query_collection *)

\* Optional[int] and Optional[float]
NoNum == [some |-> FALSE, n |-> 0]
SomeNum(n) == [some |-> TRUE, n |-> n]

\* Python truthiness of an optional number (`k if k else self.k`)
TruthyN(x) == x.some /\ x.n # 0

NoFilter == [kind |-> "none"]

\* a filter given as a str: the non-empty condition that the text spells
SqlFilter(clause) == [kind |-> "sql", clause |-> clause]

\* Python truthiness of a filter argument
TruthyF(filter) ==
    CASE filter.kind = "none" -> FALSE
      [] filter.kind = "dict" -> Len(filter.items) > 0
      [] OTHER -> TRUE

\* ORDER BY embedding_column <operator> query: nearest first, rows at the same
\* distance in an arbitrary but fixed order
RECURSIVE OrderBy(_, _, _)
OrderBy(c, rows, query) ==
    IF rows = {} THEN <<>>
    ELSE LET r == CHOOSE x \in rows :
                     \A y \in rows :
                        OperatorDistance(x[c.embedding_column].v, query)
                            <= OperatorDistance(y[c.embedding_column].v, query)
         IN  <<r>> \o OrderBy(c, rows \ {r}, query)

\* index query options: None, or an object whose to_parameter() gives params
NoOptions == [kind |-> "none"]
QueryOptions(params) == [kind |-> "QueryOptions", params |-> params]

\* index_query_options.to_parameter(): one "name = value" per option
ToParameter(options) == options.params

\* the search statement first and the options after it; C20 tells it from
\* SearchStatements
SearchStatementsOptionsLast(c, limit, ok) ==
    LET query_options == IF c.index_query_options.kind # "none"
                         THEN ToParameter(c.index_query_options) ELSE <<>>
    IN  <<[stmt |-> "select", limit |-> limit, ok |-> ok]>>
            \o [i \in DOMAIN query_options |->
                    [stmt |-> "set local", option |-> query_options[i], ok |-> TRUE]]

\* the statements of one search, in the order they are executed on its
\* connection: SET LOCAL for every query option, then the SELECT
SearchStatements(c, limit, ok) ==
    LET query_options == IF c.index_query_options.kind # "none"
                         THEN ToParameter(c.index_query_options) ELSE <<>>
    IN  [i \in DOMAIN query_options |->
            [stmt |-> "set local", option |-> query_options[i], ok |-> TRUE]]
            \o <<[stmt |-> "select", limit |-> limit, ok |-> ok]>>

\* `if filter and isinstance(filter, dict)`: the clause of a dict that is not
\* empty is compiled, a str is taken as it is, and nothing else filters
CompiledFilter(filter) ==
    IF TruthyF(filter) /\ filter.kind = "dict" THEN CreateFilterClause(filter)
    ELSE IF TruthyF(filter) THEN Clause(filter.clause)
    ELSE Clause(<<>>)

\* the rows of the search statement, nearest first and at most `limit`, each
\* with its distance
SearchRows(c, ordered, embedding, limit) ==
    [i \in 1..Min(limit, Len(ordered)) |->
        [row |-> ordered[i],
         distance |-> SearchFunction(ordered[i][c.embedding_column].v, embedding)]]

\* what the statements of a search give on their connection
Fetched(conn, rejected, rows) ==
    [raised |-> rejected, results |-> IF rejected THEN <<>> ELSE rows,
     log |-> Statements(conn), conn |-> conn]

\* the search statement with the WHERE clause `where`, run on a connection
SearchOnConnection(c, tbl, embedding, limit, where) ==
    LET rejected == where # <<>> /\ EvalSql(c, TypeRow(c), where) = "error"
        eligible == IF where = <<>> THEN tbl
                    ELSE {r \in tbl : EvalSql(c, r, where) = "true"}
    IN  Fetched(OnConnection(SearchStatements(c, limit, ~rejected)), rejected,
                SearchRows(c, OrderBy(c, eligible, embedding), embedding, limit))

\* the search of a compiled filter: nothing is executed when the compiler
\* has raised
Searching(c, tbl, embedding, limit, compiled, conn) ==
    IF compiled.err
    THEN [raised |-> TRUE, results |-> <<>>, log |-> <<>>, conn |-> conn]
    ELSE SearchOnConnection(c, tbl, embedding, limit, compiled.clause)

\* a search that takes its connection before it compiles the filter; C16
\* tells it from QueryCollection
QueryCollectionConnectFirst(c, tbl, embedding, k, filter) ==
    Searching(c, tbl, embedding, IF TruthyN(k) THEN k.n ELSE c.k,
              CompiledFilter(filter), <<Connect, Release>>)

\* the rows of SELECT .., search_function(embedding, query) as distance ..
\* WHERE filter ORDER BY .. LIMIT k, each with its distance, the statements
\* executed and the events of the connection
QueryCollection(c, tbl, embedding, k, filter) ==
    Searching(c, tbl, embedding, IF TruthyN(k) THEN k.n ELSE c.k,
              CompiledFilter(filter), <<>>)

\* (Document(..), row["distance"]) for every row of the result
DocumentsWithScores(c, results) ==
    [i \in DOMAIN results |-> <<DecodeDocument(c, results[i].row), results[i].distance>>]

\* the outcome of asimilarity_search_with_score_by_vector
SimilaritySearch(c, out) ==
    [raised |-> out.raised, value |-> DocumentsWithScores(c, out.results),
     log |-> out.log, local |-> [results |-> out.results, conn |-> out.conn]]

\* the call that has ended with `out`, and the pool after it
SearchCall(op, args, out) ==
    /\ Idle
    /\ prev' = table
    /\ last' = [op |-> op, args |-> args, raised |-> out.raised, value |-> out.value,
                log |-> out.log, local |-> out.local]
    /\ pool' = PoolAfter(pool, {}, out.local.conn)
    /\ UNCHANGED <<cfg, table, nuuid, engine, indexes, tasks, main>>

asimilarity_search_with_score_by_vector(embedding, k, filter) ==
    SearchCall("asimilarity_search_with_score_by_vector",
              [embedding |-> embedding, k |-> k, filter |-> filter],
              SimilaritySearch(cfg, QueryCollection(cfg, table, embedding, k, filter)))

----------------------------------------------------------------------------
(* Max-marginal-relevance search *)

\* the largest element of a non-empty set of numbers
Max(S) == CHOOSE x \in S : \A y \in S : y <= x

\* lambda_mult * query_score - (1 - lambda_mult) * redundant_score, doubled;
\* lambda2 is lambda_mult in halves
EquationScore(lambda2, query_score, redundant_score) ==
    lambda2 * query_score - (2 - lambda2) * redundant_score

\* the while loop of maximal_marginal_relevance: idxs is the selection so far
RECURSIVE MmrLoop(_, _, _, _, _)
MmrLoop(query, embedding_list, lambda2, k, idxs) ==
    IF Len(idxs) >= Min(k, Len(embedding_list)) THEN idxs
    ELSE LET rest == (DOMAIN embedding_list) \ Range(idxs)
             score(i) ==
                EquationScore(lambda2,
                    CosineSimilarity(query, embedding_list[i]),
                    Max({CosineSimilarity(embedding_list[i], embedding_list[idxs[j]]) :
                            j \in DOMAIN idxs}))
             \* the first index whose score no other index exceeds
             idx_to_add == CHOOSE i \in rest :
                              /\ \A j \in rest : score(j) <= score(i)
                              /\ \A j \in rest : score(j) = score(i) => i <= j
         IN  MmrLoop(query, embedding_list, lambda2, k, Append(idxs, idx_to_add))

\* langchain_core.vectorstores.utils.maximal_marginal_relevance: the indexes
\* selected, in the order of selection
MaximalMarginalRelevance(query, embedding_list, lambda2, k) ==
    IF Min(k, Len(embedding_list)) <= 0 THEN <<>>
    ELSE LET most_similar ==
                CHOOSE i \in DOMAIN embedding_list :
                    /\ \A j \in DOMAIN embedding_list :
                          CosineSimilarity(query, embedding_list[j])
                              <= CosineSimilarity(query, embedding_list[i])
                    /\ \A j \in DOMAIN embedding_list :
                          CosineSimilarity(query, embedding_list[j])
                              = CosineSimilarity(query, embedding_list[i]) => i <= j
         IN  MmrLoop(query, embedding_list, lambda2, k, <<most_similar>>)

\* [r for i, r in enumerate(documents_with_scores) if i in mmr_selected]
SelectedInFetchOrder(docs, mmr_selected) ==
    LET RECURSIVE Keep(_)
        Keep(i) ==
            IF i > Len(docs) THEN <<>>
            ELSE IF i \in Range(mmr_selected) THEN <<docs[i]>> \o Keep(i + 1)
            ELSE Keep(i + 1)
    IN  Keep(1)

\* the selection made of the rows fetched
MmrOutcome(c, embedding, k1, fetch_k1, lambda_mult1, out, docs, mmr_selected) ==
    [raised |-> out.raised,
     value |-> IF out.raised THEN <<>> ELSE SelectedInFetchOrder(docs, mmr_selected),
     log |-> out.log,
     local |-> [results |-> out.results, conn |-> out.conn,
                k |-> k1, fetch_k |-> fetch_k1, lambda_mult |-> lambda_mult1,
                mmr_selected |-> IF out.raised THEN <<>> ELSE mmr_selected,
                documents_with_scores |-> IF out.raised THEN <<>> ELSE docs]]

\* the rows fetched, their embeddings re-ranked
Rerank(c, embedding, k1, fetch_k1, lambda_mult1, out) ==
    MmrOutcome(c, embedding, k1, fetch_k1, lambda_mult1, out,
              DocumentsWithScores(c, out.results),
              MaximalMarginalRelevance(embedding,
                  [i \in DOMAIN out.results |->
                      PyOf(out.results[i].row[c.embedding_column]).v],
                  lambda_mult1, k1))

\* the outcome of amax_marginal_relevance_search_with_score_by_vector
MaxMarginalRelevanceSearch(c, tbl, embedding, k, fetch_k, lambda_mult, filter) ==
    Rerank(c, embedding,
           IF TruthyN(k) THEN k.n ELSE c.k,
           IF TruthyN(fetch_k) THEN fetch_k.n ELSE c.fetch_k,
           IF TruthyN(lambda_mult) THEN lambda_mult.n ELSE c.lambda_mult,
           QueryCollection(c, tbl, embedding, fetch_k, filter))

amax_marginal_relevance_search_with_score_by_vector(embedding, k, fetch_k, lambda_mult, filter) ==
    SearchCall("amax_marginal_relevance_search_with_score_by_vector",
              [embedding |-> embedding, k |-> k, fetch_k |-> fetch_k,
               lambda_mult |-> lambda_mult, filter |-> filter],
              MaxMarginalRelevanceSearch(cfg, table, embedding, k, fetch_k,
                                         lambda_mult, filter))

----------------------------------------------------------------------------
(* Images.  The embedding provider of the store (self.embedding_service) is  *)
(* [embed_images, embed_image, raises]: which of the two image methods it    *)
(* has, and whether the method raises on the URIs it is given.  An image is  *)
(* read through its URI: a gs:// object and an http(s):// resource over the  *)
(* network, anything else from the local file system.                        *)

Provider(embed_images, embed_image, raises) == [embed_images |-> embed_images, embed_image |-> embed_image, raises |-> raises]

\* re.match("gs://(.*?)/(.*)", uri), re.match(r"^(https?://).*", uri)
IsRemote(uri) ==
    \/ Len(uri) >= 5 /\ SubSeq(uri, 1, 5) = "gs://"
    \/ Len(uri) >= 7 /\ SubSeq(uri, 1, 7) = "http://"
    \/ Len(uri) >= 8 /\ SubSeq(uri, 1, 8) = "https://"

\* the reading of one image: where from, and the base64 text of its bytes
Read(uri) == [ev |-> IF IsRemote(uri) THEN "download" ELSE "open", uri |-> uri]
EncodeImage(uri) == "base64 of " \o uri

\* the vector an image-embedding provider gives for a URI
ImageEmbedding(uri) == IF IsRemote(uri) THEN <<1, 0>> ELSE <<0, 1>>

\* _images_embedding_helper(image_uris)
ImagesEmbeddingHelper(service, image_uris) ==
    IF service.embed_images \/ service.embed_image
    THEN IF service.raises
         THEN [raised |-> TRUE, exc |-> "Exception", embeddings |-> <<>>]
         ELSE [raised |-> FALSE, exc |-> "",
               embeddings |-> [i \in DOMAIN image_uris |-> ImageEmbedding(image_uris[i])]]
    ELSE [raised |-> TRUE, exc |-> "ValueError", embeddings |-> <<>>]

\* the metadatas handed on: {"image_uri": uri} for every URI when none are
\* given; the given ones, with image_uri added where it is missing when only
\* the URI is stored
ImageMetadatas(uris, metadatas, store_uri_only) ==
    IF ~metadatas.some
    THEN SomeList([i \in DOMAIN uris |-> [x \in {"image_uri"} |-> uris[i]]])
    ELSE IF store_uri_only
    THEN SomeList([i \in DOMAIN metadatas.v |->
                     IF "image_uri" \in DOMAIN metadatas.v[i] THEN metadatas.v[i]
                     ELSE Put(metadatas.v[i], "image_uri", uris[i])])
    ELSE metadatas

\* the images read and the texts of the content column
ImageTexts(service, uris, store_uri_only) ==
    IF store_uri_only
    THEN [reads |-> <<>>, texts |-> uris]
    ELSE [reads |-> [i \in DOMAIN uris |-> Read(uris[i])],
          texts |-> [i \in DOMAIN uris |-> EncodeImage(uris[i])]]

\* aadd_images once the images are read and embedded: `added` is what
\* aadd_embeddings gives for the texts and the embeddings
ImagesAdded(tbl, content, helper, added, fresh) ==
    IF helper.raised
    THEN [table |-> tbl, raised |-> TRUE, value |-> <<>>, log |-> <<>>,
          local |-> [reads |-> content.reads, exc |-> helper.exc, conn |-> <<>>],
          fresh |-> 0]
    ELSE [table |-> added.table, raised |-> added.raised, value |-> added.value,
          log |-> added.log,
          local |-> [reads |-> content.reads, exc |-> "",
                     conn |-> RecordConnections(added.log, 1)],
          fresh |-> fresh]

\* aadd_images from the texts of the content column on
ImagesEmbedded(c, tbl, base, content, helper, metadatas, ids) ==
    ImagesAdded(tbl, content, helper,
                AddEmbeddings(c, tbl, base, content.texts, helper.embeddings, metadatas, ids),
                FreshCount(content.texts, ids))

\* the outcome of aadd_images(uris, metadatas, ids, store_uri_only)
AddImages(c, tbl, base, service, uris, metadatas, ids, store_uri_only) ==
    ImagesEmbedded(c, tbl, base, ImageTexts(service, uris, store_uri_only),
                   ImagesEmbeddingHelper(service, uris),
                   ImageMetadatas(uris, metadatas, store_uri_only), ids)

\* a call of the store with the provider `service` that has ended with `out`
ImageCall(op, args, out) ==
    /\ Idle
    /\ nuuid + out.fresh <= MaxUuid
    /\ Cardinality(out.table) <= MaxRows
    /\ table' = out.table
    /\ prev' = table
    /\ nuuid' = nuuid + out.fresh
    /\ last' = [op |-> op, args |-> args, raised |-> out.raised, value |-> out.value,
                log |-> out.log, local |-> out.local]
    /\ pool' = PoolAfter(pool, {}, out.local.conn)
    /\ UNCHANGED <<cfg, engine, indexes, tasks, main>>

aadd_images(service, uris, metadatas, ids, store_uri_only) ==
    ImageCall("aadd_images",
              [service |-> service, uris |-> uris, metadatas |-> metadatas, ids |-> ids,
               store_uri_only |-> store_uri_only],
              AddImages(cfg, table, nuuid, service, uris, metadatas, ids, store_uri_only))

\* asimilarity_search_by_vector once the image is embedded: the documents of
\* asimilarity_search_with_score_by_vector without their scores
ImageSearched(c, tbl, helper, out) ==
    IF helper.raised
    THEN [table |-> tbl, raised |-> TRUE, value |-> <<>>, log |-> <<>>,
          local |-> [reads |-> <<>>, exc |-> helper.exc, conn |-> <<>>], fresh |-> 0]
    ELSE [table |-> tbl, raised |-> out.raised,
          value |-> [i \in DOMAIN out.value |-> out.value[i][1]],
          log |-> out.log,
          local |-> [reads |-> <<>>, exc |-> "", conn |-> out.local.conn], fresh |-> 0]

\* the outcome of asimilarity_search_image(image_uri, k, filter)
SimilaritySearchImage(c, tbl, service, image_uri, k, filter, helper) ==
    ImageSearched(c, tbl, helper,
        IF helper.raised THEN helper
        ELSE SimilaritySearch(c, QueryCollection(c, tbl, helper.embeddings[1], k, filter)))

asimilarity_search_image(service, image_uri, k, filter) ==
    ImageCall("asimilarity_search_image",
              [service |-> service, image_uri |-> image_uri, k |-> k, filter |-> filter],
              SimilaritySearchImage(cfg, table, service, image_uri, k, filter,
                                    ImagesEmbeddingHelper(service, <<image_uri>>)))

----------------------------------------------------------------------------
(* Vector indexes.  `indexes` is what the backend's catalog holds for the    *)
(* store's table: the names of its indexes (pg_indexes) and the extensions   *)
(* created.  An index descriptor is [index_type, name, extension_name]; the  *)
(* ExactNearestNeighbor descriptor stands for brute-force search.  A         *)
(* connection opens a transaction at its first statement; the statement      *)
(* COMMIT and conn.commit() end it, a release without a commit rolls back.   *)

NoIndexes == [index |-> {}, extension |-> {}]

\* self.table_name + DEFAULT_INDEX_NAME_SUFFIX
DefaultIndexName == "test_tablelangchainvectorindex"

ExactNearestNeighbor == [index_type |-> "exactnearestneighbor", name |-> NoneS, extension_name |-> NoneS]
HNSWIndex(name) == [index_type |-> "hnsw", name |-> name, extension_name |-> NoneS]
ScaNNIndex(name) == [index_type |-> "ScaNN", name |-> name, extension_name |-> "alloydb_scann"]

\* isinstance(index, ExactNearestNeighbor)
IsExact(index) == index.index_type = "exactnearestneighbor"

CreateExtension(name) == [stmt |-> "create extension", name |-> name]
CreateIndex(name, concurrently) == [stmt |-> "create index", name |-> name, concurrently |-> concurrently]
DropIndex(name) == [stmt |-> "drop index", name |-> name]
Reindex(name) == [stmt |-> "reindex", name |-> name]
SelectIndex(name) == [stmt |-> "select index", name |-> name]
\* the statement COMMIT, executed as text
CommitText == [stmt |-> "COMMIT", name |-> ""]
\* conn.commit()
CommitCall == [stmt |-> "commit", name |-> ""]

\* the backend accepts the statement: no second index of a name, no reindex
\* of a missing index, no concurrent build inside a transaction block
Accepts(ix, in_txn, s) ==
    CASE s.stmt = "create index" ->
            s.name \notin ix.index /\ ~(s.concurrently /\ in_txn)
      [] s.stmt = "reindex" -> s.name \in ix.index
      [] OTHER -> TRUE

\* the catalog as the session sees it after the statement
Applied(ix, s) ==
    CASE s.stmt = "create extension" -> [ix EXCEPT !.extension = @ \cup {s.name}]
      [] s.stmt = "create index" -> [ix EXCEPT !.index = @ \cup {s.name}]
      [] s.stmt = "drop index" -> [ix EXCEPT !.index = @ \ {s.name}]
      [] OTHER -> ix

\* the statements of one connection, from the i-th on: committed is the
\* catalog every session sees, seen the catalog of this session's open
\* transaction, done the statements executed so far
RECURSIVE RunOnConnection(_, _, _, _, _, _)
RunOnConnection(committed, seen, in_txn, stmts, i, done) ==
    IF i > Len(stmts) THEN [indexes |-> committed, log |-> done, raised |-> FALSE]
    ELSE LET s == stmts[i]
             ok == Accepts(seen, in_txn, s)
             entry == [stmt |-> s.stmt, name |-> s.name, ok |-> ok]
             after == Applied(seen, s)
             ends == s.stmt \in {"COMMIT", "commit"}
         IN  IF ~ok
             THEN [indexes |-> committed, log |-> Append(done, entry), raised |-> TRUE]
             ELSE RunOnConnection(IF ends \/ ~in_txn THEN after ELSE committed,
                                  after, in_txn /\ ~ends, stmts, i + 1,
                                  Append(done, entry))

\* async with self.engine.connect() as conn: stmts
WithConnection(ix, stmts) == RunOnConnection(ix, ix, TRUE, stmts, 1, <<>>)

\* the name the index is created under
ResolvedName(index, name) ==
    IF name # NoneS THEN name
    ELSE IF index.name = NoneS THEN DefaultIndexName ELSE index.name

\* index_name or self.table_name + DEFAULT_INDEX_NAME_SUFFIX
NameOrDefault(index_name) == IF TruthyS(index_name) THEN index_name ELSE DefaultIndexName

\* the statements of the index build, in the order they are executed
IndexStatementsCommitLast(stmt, concurrently) ==
    IF concurrently THEN <<stmt, CommitText>> ELSE <<stmt, CommitCall>>

IndexStatements(stmt, concurrently) ==
    IF concurrently THEN <<CommitText, stmt>> ELSE <<stmt, CommitCall>>

\* the events and the outcome of one connection after those of the
\* connections before it
Then(before, run) ==
    [indexes |-> run.indexes, raised |-> run.raised, log |-> before.log \o run.log,
     conn |-> before.conn \o OnConnection(run.log)]

Nothing(ix) == [indexes |-> ix, raised |-> FALSE, log |-> <<>>, conn |-> <<>>]

\* adrop_vector_index(index_name)
DropVectorIndex(ix, index_name) ==
    Then(Nothing(ix), WithConnection(ix, <<DropIndex(NameOrDefault(index_name)), CommitCall>>))

\* the extension of the index, created and committed on a connection of its own
ExtensionCreated(ix, index) ==
    IF TruthyS(index.extension_name)
    THEN Then(Nothing(ix), WithConnection(ix, <<CreateExtension(index.extension_name), CommitCall>>))
    ELSE Nothing(ix)

\* the index statement after the extension's
IndexBuilt(ext, index, name, concurrently) ==
    IF ext.raised THEN ext
    ELSE Then(ext, WithConnection(ext.indexes,
                  IndexStatements(CreateIndex(ResolvedName(index, name), concurrently),
                                  concurrently)))

\* aapply_vector_index(index, name, concurrently)
ApplyVectorIndex(ix, index, name, concurrently) ==
    IF IsExact(index) THEN DropVectorIndex(ix, NoneS)
    ELSE IndexBuilt(ExtensionCreated(ix, index), index, name, concurrently)

\* areindex(index_name)
ReindexOutcome(ix, index_name) ==
    Then(Nothing(ix), WithConnection(ix, <<Reindex(NameOrDefault(index_name)), CommitCall>>))

\* is_valid_index(index_name): whether the catalog query returns one row
IsValidIndex(ix, index_name) == NameOrDefault(index_name) \in ix.index

\* the call that has ended with `out` on the catalog
IndexCall(op, args, out, value) ==
    /\ Idle
    /\ prev' = table
    /\ indexes' = out.indexes
    /\ pool' = PoolAfter(pool, {}, out.conn)
    /\ last' = [op |-> op, args |-> args, raised |-> out.raised, value |-> value,
                log |-> out.log, local |-> [conn |-> out.conn]]
    /\ UNCHANGED <<cfg, table, nuuid, engine, tasks, main>>

aapply_vector_index(index, name, concurrently) ==
    IndexCall("aapply_vector_index",
              [index |-> index, name |-> name, concurrently |-> concurrently],
              ApplyVectorIndex(indexes, index, name, concurrently), <<>>)

adrop_vector_index(index_name) ==
    IndexCall("adrop_vector_index", [index_name |-> index_name],
              DropVectorIndex(indexes, index_name), <<>>)

areindex(index_name) ==
    IndexCall("areindex", [index_name |-> index_name],
              ReindexOutcome(indexes, index_name), <<>>)

is_valid_index(index_name) ==
    IndexCall("is_valid_index", [index_name |-> index_name],
              Then(Nothing(indexes), WithConnection(indexes, <<SelectIndex(NameOrDefault(index_name))>>)),
              IsValidIndex(indexes, index_name))

----------------------------------------------------------------------------
(* Tasks on the loop.  `tasks` holds the aadd_embeddings coroutines that     *)
(* were handed to the event loop (asyncio.ensure_future), in the order they  *)
(* were started.  A coroutine runs up to its next await and then lets the    *)
(* loop run another: before the checkout of a connection, before the         *)
(* statement, before the commit and before the release.  `at` is the await   *)
(* it stands at, `i` the record of the zip it is writing, `written` the      *)
(* records it has committed.  The backend holds the row of an id locked from  *)
(* the statement to the end of its transaction: a statement for an id that   *)
(* another open transaction has written waits for that transaction.          *)

NoTasks == <<>>

\* the coroutine object of aadd_embeddings(texts, embeddings, metadatas, ids),
\* with ids and metadatas as filled in before the loop
Task(base, texts, embeddings, metadatas, ids) ==
    [ids |-> FilledIds(texts, ids, base), texts |-> texts, embeddings |-> embeddings,
     metadatas |-> FilledMetadatas(texts, metadatas),
     i |-> 1, at |-> "start", written |-> {}, state |-> "pending"]

Finished(t) == t.state \in {"done", "failed"}

\* the statement of the record the task is writing
StatementOf(c, t) ==
    BuildUpsert(c, t.ids[t.i], t.texts[t.i], t.embeddings[t.i], t.metadatas[t.i])

\* the ids whose rows are locked by a transaction of another task than n
LockedByOthers(ts, n) ==
    {ts[m].ids[ts[m].i] : m \in {x \in DOMAIN ts : x # n /\ ts[x].at = "commit"}}

\* the task can run to its next await
Runnable(ts, n) ==
    /\ ~Finished(ts[n])
    /\ ts[n].at = "execute" => ts[n].ids[ts[n].i] \notin LockedByOthers(ts, n)

\* the task at its next await, or finished
Resumed(c, t) ==
    CASE t.at = "start" ->
            IF t.i > ZipLen(t.ids, t.texts, t.embeddings, t.metadatas)
            THEN [t EXCEPT !.state = "done", !.at = "end"]
            ELSE [t EXCEPT !.at = "execute"]
      [] t.at = "execute" ->
            IF StatementFails(c, StatementOf(c, t))
            THEN [t EXCEPT !.at = "raise"]
            ELSE [t EXCEPT !.at = "commit"]
      [] t.at = "commit" ->
            [t EXCEPT !.at = "release", !.written = @ \cup {t.i}]
      [] t.at = "release" ->
            [t EXCEPT !.at = "start", !.i = @ + 1]
      [] t.at = "raise" ->
            [t EXCEPT !.state = "failed", !.at = "end"]

\* the connections the resumption checks out (1) or gives back (-1)
ConnectionsHeld(t, u) ==
    CASE t.at = "start" /\ u.at = "execute" -> 1
      [] t.at \in {"release", "raise"} -> -1
      [] OTHER -> 0

\* the table after a resumption: the commit makes the statement's row visible
TableAfter(c, tbl, t) ==
    IF t.at = "commit" THEN ExecUpsert(c, tbl, StatementOf(c, t)) ELSE tbl

\* asyncio.ensure_future(vs.aadd_embeddings(texts, embeddings, metadatas, ids))
Started(ts, base, texts, embeddings, metadatas, ids) ==
    Append(ts, Task(base, texts, embeddings, metadatas, ids))

\* the loop has nothing else to run than tasks: the caller is suspended
LoopFree == main.pc \in {"none", "wait_first", "wait_all", "completed"}

\* a caller on the loop starts aadd_embeddings as a task and awaits it with
\* the others (asyncio.gather)
ensure_future(texts, embeddings, metadatas, ids) ==
    /\ main.pc = "none"
    /\ Idle
    /\ Len(tasks) < MaxTasks
    /\ nuuid + FreshCount(texts, ids) <= MaxUuid
    /\ tasks' = Started(tasks, nuuid, texts, embeddings, metadatas, ids)
    /\ nuuid' = nuuid + FreshCount(texts, ids)
    /\ UNCHANGED <<cfg, table, prev, last, pool, engine, indexes, main>>

\* the loop resumes task n
task_step(n) ==
    /\ LoopFree
    /\ n \in DOMAIN tasks
    /\ Runnable(tasks, n)
    /\ tasks' = [tasks EXCEPT ![n] = Resumed(cfg, tasks[n])]
    /\ table' = TableAfter(cfg, table, tasks[n])
    /\ pool' = [pool EXCEPT !.out = @ + ConnectionsHeld(tasks[n], Resumed(cfg, tasks[n]))]
    /\ UNCHANGED <<cfg, prev, last, nuuid, engine, indexes, main>>

----------------------------------------------------------------------------
(* The migration sample: main reads the source collection page by page and   *)
(* hands each page to aadd_embeddings as a task.  `main` holds where main    *)
(* stands, the pages the source iterator has still to yield, the tasks of    *)
(* its `pending` set and max_concurrency.  A document of the source is       *)
(* [pk, text, vector, idv].                                                  *)

NoMain == [pc |-> "none", pages |-> <<>>, pending |-> {}, max_concurrency |-> 0, source |-> <<>>]

\* what get_data_batch yields for a page: ids, content, embeddings, metadatas
DataBatch(page) ==
    [ids |-> [i \in DOMAIN page |-> page[i].pk],
     content |-> [i \in DOMAIN page |-> page[i].text],
     embeddings |-> [i \in DOMAIN page |-> page[i].vector],
     metadatas |-> [i \in DOMAIN page |-> [x \in {"idv"} |-> page[i].idv]]]

\* the tasks of `pending` that are not done
Unfinished(ts, pending) == {n \in pending : ~Finished(ts[n])}

\* `if len(pending) >= max_concurrency` with > for >=
MustWaitLate(pending, max_concurrency) == Cardinality(pending) > max_concurrency

\* if len(pending) >= max_concurrency
MustWait(pending, max_concurrency) == Cardinality(pending) >= max_concurrency

\* asyncio.run(main(..)) on the pages of a source collection
main_start(pages, max_concurrency) ==
    /\ main.pc = "none"
    /\ tasks = NoTasks
    /\ Idle
    /\ main' = [pc |-> "loop", pages |-> pages, pending |-> {},
                max_concurrency |-> max_concurrency, source |-> pages]
    /\ UNCHANGED <<cfg, table, prev, last, nuuid, pool, engine, indexes, tasks>>

\* one iteration of the for loop: the next batch becomes a pending task, and
\* main waits when max_concurrency tasks are pending
main_next_batch ==
    /\ main.pc = "loop"
    /\ main.pages # <<>>
    /\ tasks' = Started(tasks, nuuid, DataBatch(Head(main.pages)).content,
                        DataBatch(Head(main.pages)).embeddings,
                        SomeList(DataBatch(Head(main.pages)).metadatas),
                        SomeList(DataBatch(Head(main.pages)).ids))
    /\ main' = [main EXCEPT
                  !.pages = Tail(@),
                  !.pending = @ \cup {Len(tasks) + 1},
                  !.pc = IF MustWait(main.pending \cup {Len(tasks) + 1}, main.max_concurrency)
                         THEN "wait_first" ELSE "loop"]
    /\ UNCHANGED <<cfg, table, prev, last, nuuid, pool, engine, indexes>>

\* _, pending = await asyncio.wait(pending, return_when=FIRST_COMPLETED)
main_first_completed ==
    /\ main.pc = "wait_first"
    /\ Unfinished(tasks, main.pending) # main.pending
    /\ main' = [main EXCEPT !.pending = Unfinished(tasks, main.pending), !.pc = "loop"]
    /\ UNCHANGED <<cfg, table, prev, last, nuuid, pool, engine, indexes, tasks>>

\* the iterator is exhausted: if pending: await asyncio.wait(pending)
main_loop_end ==
    /\ main.pc = "loop"
    /\ main.pages = <<>>
    /\ main' = [main EXCEPT !.pc = IF main.pending # {} THEN "wait_all" ELSE "completed"]
    /\ UNCHANGED <<cfg, table, prev, last, nuuid, pool, engine, indexes, tasks>>

\* every pending task is done: print("Migration completed, ..")
main_all_completed ==
    /\ main.pc = "wait_all"
    /\ Unfinished(tasks, main.pending) = {}
    /\ main' = [main EXCEPT !.pc = "completed"]
    /\ UNCHANGED <<cfg, table, prev, last, nuuid, pool, engine, indexes, tasks>>

----------------------------------------------------------------------------
(* Inputs *)

CallerIds == {"i1"}

\* an embedding of a wrong dimension
BadEmbedding == <<1>>

\* a metadata key no table has a column for
LeftoverKey == "topic"

\* the metadata dicts written: none, every key, the typed columns only, the
\* leftover key only
RecordPool(c) ==
    LET typed == Range(c.metadata_columns)
        all == typed \cup {LeftoverKey}
    IN  {<<"t1", <<1, 0>>, SomeList(<<EmptyDict>>)>>,
         <<"t1", <<1, 0>>, NoList>>,
         <<"t2", <<0, 1>>, SomeList(<<[x \in all |-> "m1"]>>)>>,
         <<"t1", <<1, 0>>, SomeList(<<[x \in all |-> "m2"]>>)>>,
         <<"t2", <<1, 0>>, SomeList(<<[x \in {LeftoverKey} |-> "m1"]>>)>>,
         <<"t1", <<0, 1>>, SomeList(<<[x \in typed |-> "m2"]>>)>>,
         <<"t1", BadEmbedding, SomeList(<<EmptyDict>>)>>}

\* single records, under a caller's id or a generated one
RecordInputs(c) ==
    {[texts |-> <<r[1]>>, embeddings |-> <<r[2]>>, metadatas |-> r[3], ids |-> i] :
        r \in RecordPool(c),
        i \in {NoList} \cup {SomeList(<<x>>) : x \in CallerIds}}

\* id lists of up to MaxIds ids, present or not in the table
IdLists ==
    {l \in UNION {[1..n -> {"i1", Uuid(1), "absent"}] : n \in 0..MaxIds} :
        \A i, j \in DOMAIN l : i # j => l[i] # l[j]}

WriteCfgs == {CfgDefault, CfgCustom, CfgNoJson, CfgBindNames, CfgBindId}

InitWrite ==
    /\ cfg \in WriteCfgs
    /\ table = {}
    /\ prev = {}
    /\ last = NoOp
    /\ nuuid = 0
    /\ pool = NoConnections
    /\ engine = NoEngine
    /\ indexes = NoIndexes
    /\ tasks = NoTasks
    /\ main = NoMain

NextWrite ==
    \/ \E in \in RecordInputs(cfg) :
          /\ aadd_embeddings(in.texts, in.embeddings, in.metadatas, in.ids)
          /\ Cardinality(table') <= MaxRows
    \/ \E ids \in {NoList} \cup {SomeList(l) : l \in IdLists} : adelete(ids)
    \/ \E ids \in IdLists : aget_by_ids(ids)
    \/ Return

SpecWrite == InitWrite /\ [][NextWrite]_vars

\* batches of up to MaxBatch records: a record with metadata, one without and
\* one the backend rejects, each under a caller's id or None
BatchPool(c) ==
    LET all == Range(c.metadata_columns) \cup {LeftoverKey}
    IN  {<<"t1", <<1, 0>>, [x \in all |-> "m1"]>>,
         <<"t2", <<0, 1>>, EmptyDict>>,
         <<"t1", BadEmbedding, EmptyDict>>}

BatchInputs(c) ==
    UNION {
      {[texts |-> [i \in 1..n |-> rs[i][1]],
        embeddings |-> [i \in 1..n |-> rs[i][2]],
        metadatas |-> IF n = 0 THEN NoList ELSE SomeList([i \in 1..n |-> rs[i][3]]),
        ids |-> ids] :
          rs \in [1..n -> BatchPool(c)],
          ids \in {NoList} \cup {SomeList(l) : l \in [1..n -> CallerIds \cup {NoneS}]}} :
      n \in 0..MaxBatch}

BatchCfgs == {CfgCustom, CfgBindId}

InitBatch ==
    /\ cfg \in BatchCfgs
    /\ table = {}
    /\ prev = {}
    /\ last = NoOp
    /\ nuuid = 0
    /\ pool = NoConnections
    /\ engine = NoEngine
    /\ indexes = NoIndexes
    /\ tasks = NoTasks
    /\ main = NoMain

NextBatch ==
    \/ \E in \in BatchInputs(cfg) :
          /\ aadd_embeddings(in.texts, in.embeddings, in.metadatas, in.ids)
          /\ Cardinality(table') <= MaxRows
    \/ \E ids \in {NoList} \cup {SomeList(l) : l \in IdLists} : adelete(ids)
    \/ Return

SpecBatch == InitBatch /\ [][NextBatch]_vars

\* the store that is searched: a typed column for the "page" key, a JSON
\* column, a store-level k below its fetch_k
\* the store c with index_query_options set
WithOptions(c, options) ==
    [id_column |-> c.id_column, content_column |-> c.content_column,
     embedding_column |-> c.embedding_column, metadata_columns |-> c.metadata_columns,
     metadata_json_column |-> c.metadata_json_column,
     k |-> c.k, fetch_k |-> c.fetch_k, lambda_mult |-> c.lambda_mult,
     index_query_options |-> options]

CfgSearch ==
    WithOptions(StoreConfig("myid", "mycontent", "myembedding", <<"page">>, "mymeta",
                            MaxK - 1, MaxK, DefaultLambdaMult),
                NoOptions)

SearchIds == {"s1", "s2", "s3"}

\* the records searched: embeddings of whole norm, a page or none
SearchPool ==
    {<<"t1", <<4, 3>>, [x \in {"page"} |-> "p1"]>>,
     <<"t2", <<3, 4>>, [x \in {"page"} |-> "p2"]>>,
     <<"t3", <<0, -1>>, EmptyDict>>}

Queries == {<<1, 0>>, <<3, 4>>}

\* Optional numbers: None, 0 and 1..n
OptionalNums(n) == {NoNum} \cup {SomeNum(x) : x \in 0..n}

EqFilter(field, s) == PyItems(<<<<field, PyStr(s)>>>>)

\* no filter, an equality, an inequality, a disjunction over two columns, and
\* a key that only the JSON column holds
Filters ==
    {NoFilter,
     EqFilter("page", "p1"),
     PyItems(<<<<"page", PyItems(<<<<"$ne", PyStr("p1")>>>>)>>>>),
     PyItems(<<<<"$or", PyList(<<EqFilter("page", "p2"),
                                EqFilter("mycontent", "t1")>>)>>>>),
     EqFilter(LeftoverKey, "m1")}

InitSearch ==
    /\ cfg = CfgSearch
    /\ table = {}
    /\ prev = {}
    /\ last = NoOp
    /\ nuuid = 0
    /\ pool = NoConnections
    /\ engine = NoEngine
    /\ indexes = NoIndexes
    /\ tasks = NoTasks
    /\ main = NoMain

NextSearch ==
    \/ \E r \in SearchPool, id \in SearchIds :
          aadd_embeddings(<<r[1]>>, <<r[2]>>, SomeList(<<r[3]>>), SomeList(<<id>>))
    \/ \E q \in Queries, k \in OptionalNums(MaxK), f \in Filters :
          asimilarity_search_with_score_by_vector(q, k, f)
    \/ \E q \in Queries, k \in OptionalNums(MaxK), fetch_k \in OptionalNums(MaxK),
          lambda_mult \in {NoNum, SomeNum(0), SomeNum(2)},
          f \in {NoFilter, EqFilter("page", "p1")} :
          amax_marginal_relevance_search_with_score_by_vector(q, k, fetch_k,
                                                              lambda_mult, f)
    \/ Return

SpecSearch == InitSearch /\ [][NextSearch]_vars

\* searches of stores with and without index query options, with filters
\* that compile, filters that the compiler rejects and one that the backend
\* rejects

HnswOptions == QueryOptions(<<"hnsw.ef_search = 40">>)

ScannOptions ==
    QueryOptions(<<"scann.num_leaves_to_search = 1",
                   "scann.pre_reordering_num_neighbors = -1">>)

\* the table of the searches, as information_schema reports it
SearchColumns ==
    <<<<"myid", "uuid", "uuid">>, <<"mycontent", "text", "text">>,
      <<"myembedding", "USER-DEFINED", "vector">>, <<"page", "text", "text">>,
      <<"mymeta", "json", "json">>>>

\* the arguments of create that give the store CfgSearch with the options o
SearchArgs(o) ==
    [id_column |-> "myid", content_column |-> "mycontent",
     embedding_column |-> "myembedding", metadata_columns |-> <<"page">>,
     ignore_metadata_columns |-> NoList, metadata_json_column |-> "mymeta",
     k |-> MaxK - 1, fetch_k |-> MaxK, lambda_mult |-> DefaultLambdaMult,
     index_query_options |-> o]

IndexFilters ==
    {NoFilter,
     EqFilter("page", "p1"),
     EqFilter(LeftoverKey, "m1"),
     PyItems(<<<<"$gt", PyInt(1)>>>>),
     PyItems(<<<<"page", PyItems(<<<<"$between", PyInt(1)>>>>)>>>>),
     PyItems(<<<<"page", PyItems(<<<<"$in", PyList(<<PyBool(TRUE)>>)>>>>)>>>>)}

InitIndex ==
    /\ cfg = CfgSearch
    /\ table = {}
    /\ prev = {}
    /\ last = NoOp
    /\ nuuid = 0
    /\ pool = NoConnections
    /\ engine = NoEngine
    /\ indexes = NoIndexes
    /\ tasks = NoTasks
    /\ main = NoMain

NextIndex ==
    \/ \E o \in {NoOptions, HnswOptions, ScannOptions} :
          create(SearchColumns, SearchArgs(o))
    \/ \E r \in SearchPool, id \in {"s1", "s2"} :
          aadd_embeddings(<<r[1]>>, <<r[2]>>, SomeList(<<r[3]>>), SomeList(<<id>>))
    \/ \E q \in Queries, k \in {NoNum, SomeNum(1)}, f \in IndexFilters :
          asimilarity_search_with_score_by_vector(q, k, f)
    \/ \E q \in Queries, k \in {NoNum, SomeNum(1)}, fetch_k \in {NoNum, SomeNum(MaxK)},
          f \in IndexFilters :
          amax_marginal_relevance_search_with_score_by_vector(q, k, fetch_k, NoNum, f)
    \/ Return

SpecIndex == InitIndex /\ [][NextIndex]_vars

\* construction over tables of several shapes: the table that
\* init_vectorstore_table makes, the same with a varchar content column and a
\* typed metadata column, one whose embedding column is an array of reals,
\* one whose embedding column is of another user-defined type, and no table

DefaultColumns ==
    <<<<"langchain_id", "uuid", "uuid">>, <<"content", "text", "text">>,
      <<"embedding", "USER-DEFINED", "vector">>,
      <<"langchain_metadata", "json", "json">>>>

VarcharColumns ==
    <<<<"langchain_id", "uuid", "uuid">>,
      <<"content", "character varying", "varchar">>,
      <<"embedding", "USER-DEFINED", "vector">>, <<"page", "integer", "int4">>,
      <<"langchain_metadata", "json", "json">>>>

ArrayColumns ==
    <<<<"langchain_id", "uuid", "uuid">>, <<"content", "text", "text">>,
      <<"embedding", "ARRAY", "_float4">>, <<"page", "integer", "int4">>>>

HstoreColumns ==
    <<<<"langchain_id", "uuid", "uuid">>, <<"content", "text", "text">>,
      <<"embedding", "USER-DEFINED", "hstore">>, <<"page", "integer", "int4">>>>

Tables == {DefaultColumns, VarcharColumns, ArrayColumns, HstoreColumns, <<>>}

CreateArgs ==
    [id_column : {"langchain_id", "random_column"},
     content_column : {"content", "langchain_id"},
     embedding_column : {"embedding", "random_column"},
     metadata_columns : {<<>>, <<"page">>, <<"page", "random_column">>},
     ignore_metadata_columns : {NoList, SomeList(<<"page">>),
                                SomeList(<<"random_column">>)},
     metadata_json_column : {"langchain_metadata"},
     k : {DefaultK}, fetch_k : {DefaultFetchK}, lambda_mult : {DefaultLambdaMult},
     index_query_options : {NoOptions}]

InitCreate ==
    /\ cfg = CfgSearch
    /\ table = {}
    /\ prev = {}
    /\ last = NoOp
    /\ nuuid = 0
    /\ pool = NoConnections
    /\ engine = NoEngine
    /\ indexes = NoIndexes
    /\ tasks = NoTasks
    /\ main = NoMain

NextCreate ==
    \/ \E columns \in Tables, a \in CreateArgs : create(columns, a)
    \/ \E key \in {CreateKey, "engine"} : init(key, WithOptions(CfgDefault, NoOptions))
    \/ Return

SpecCreate == InitCreate /\ [][NextCreate]_vars

\* engines with and without a loop, driven through the synchronous methods
\* and their async counterparts over two table names

TableNames == {"t1", "t2"}

NoQuery == Sql("", "")

SyncMethods ==
    {"_execute", "_fetch", "init_vectorstore_table", "init_chat_history_table",
     "init_document_table"}

EngineArgs(method) ==
    CASE method = "_execute" ->
            {[table_name |-> "", overwrite_existing |-> FALSE, query |-> Sql(q, n)] :
                q \in {"create table", "drop table if exists"}, n \in TableNames}
      [] method = "_fetch" ->
            {[table_name |-> "", overwrite_existing |-> FALSE,
              query |-> Sql("select", n)] : n \in TableNames}
      [] method = "init_vectorstore_table" ->
            {[table_name |-> n, overwrite_existing |-> o, query |-> NoQuery] :
                n \in TableNames, o \in BOOLEAN}
      [] OTHER ->
            {[table_name |-> n, overwrite_existing |-> FALSE, query |-> NoQuery] :
                n \in TableNames}

InitEngine ==
    /\ cfg = CfgSearch
    /\ table = {}
    /\ prev = {}
    /\ last = NoOp
    /\ nuuid = 0
    /\ pool = NoConnections
    /\ engine = NoEngine
    /\ indexes = NoIndexes
    /\ tasks = NoTasks
    /\ main = NoMain

NextEngine ==
    \/ from_engine
    \/ from_instance
    \/ \E method \in SyncMethods : \E a \in EngineArgs(method) : sync_call(method, a)
    \/ \E method \in SyncMethods : \E a \in EngineArgs(method) : async_call(method, a)
    \/ loop_step
    \/ take_result
    \/ Return

SpecEngine == InitEngine /\ [][NextEngine]_vars

\* index builds under the default name, the descriptor's own name and an
\* explicit name, concurrent or not, with drops, reindexes and catalog checks

OwnIndexName == "own_index"
ExplicitIndexName == "explicit_index"

IndexDescriptors ==
    {ExactNearestNeighbor, HNSWIndex(NoneS), HNSWIndex(OwnIndexName),
     ScaNNIndex(NoneS), ScaNNIndex(OwnIndexName)}

IndexNameArgs == {NoneS, ExplicitIndexName, OwnIndexName}

InitVectorIndex ==
    /\ cfg = CfgSearch
    /\ table = {}
    /\ prev = {}
    /\ last = NoOp
    /\ nuuid = 0
    /\ pool = NoConnections
    /\ engine = NoEngine
    /\ indexes = NoIndexes
    /\ tasks = NoTasks
    /\ main = NoMain

NextVectorIndex ==
    \/ \E index \in IndexDescriptors, name \in {NoneS, ExplicitIndexName}, concurrently \in BOOLEAN : aapply_vector_index(index, name, concurrently)
    \/ \E index_name \in IndexNameArgs : adrop_vector_index(index_name)
    \/ \E index_name \in IndexNameArgs : areindex(index_name)
    \/ \E index_name \in IndexNameArgs : is_valid_index(index_name)
    \/ Return

SpecVectorIndex == InitVectorIndex /\ [][NextVectorIndex]_vars

\* image calls on the default table, with providers that have embed_images,
\* embed_image or neither, over remote and local URIs

Providers ==
    {Provider(TRUE, FALSE, FALSE), Provider(FALSE, TRUE, FALSE),
     Provider(FALSE, FALSE, FALSE), Provider(TRUE, FALSE, TRUE)}

ImageUris == {"gs://bucket/cat.png", "https://host/dog.png", "cat.png"}

InitImages ==
    /\ cfg = WithOptions(CfgDefault, NoOptions)
    /\ table = {}
    /\ prev = {}
    /\ last = NoOp
    /\ nuuid = 0
    /\ pool = NoConnections
    /\ engine = NoEngine
    /\ indexes = NoIndexes
    /\ tasks = NoTasks
    /\ main = NoMain

NextImages ==
    \/ \E service \in Providers, uri \in ImageUris, metadatas \in {NoList, SomeList(<<EmptyDict>>)}, ids \in {NoList, SomeList(<<"i1">>)}, store_uri_only \in BOOLEAN : aadd_images(service, <<uri>>, metadatas, ids, store_uri_only)
    \/ \E service \in Providers, uri \in ImageUris, k \in {NoNum, SomeNum(1)} : asimilarity_search_image(service, uri, k, NoFilter)
    \/ Return

SpecImages == InitImages /\ [][NextImages]_vars

\* the migration sample over source collections of up to MaxTasks pages: a
\* page holds one document, the first page of a collection one or two; a
\* document's vector has the table's dimension or another one

Doc(n, vector) == [pk |-> "p" \o ToString(n), text |-> "t" \o ToString(n), vector |-> vector, idv |-> "v" \o ToString(n)]

\* the pages from the n-th on
RECURSIVE PagesFrom(_)
PagesFrom(n) ==
    IF n > MaxTasks THEN {<<>>}
    ELSE {<<>>} \cup {<<<<Doc(n, v)>>>> \o rest : v \in {<<1, 0>>, BadEmbedding}, rest \in PagesFrom(n + 1)}

Sources ==
    (PagesFrom(1) \ {<<>>})
        \cup {<<<<Doc(1, <<1, 0>>), Doc(0, v)>>>> \o rest : v \in {<<1, 0>>, BadEmbedding}, rest \in PagesFrom(MaxTasks)}

InitMigration ==
    /\ cfg = WithOptions(CfgDefault, NoOptions)
    /\ table = {}
    /\ prev = {}
    /\ last = NoOp
    /\ nuuid = 0
    /\ pool = NoConnections
    /\ engine = NoEngine
    /\ indexes = NoIndexes
    /\ tasks = NoTasks
    /\ main = NoMain

NextMigration ==
    \/ \E pages \in Sources, max_concurrency \in 1..MaxTasks : main_start(pages, max_concurrency)
    \/ main_next_batch
    \/ main_first_completed
    \/ main_loop_end
    \/ main_all_completed
    \/ \E n \in 1..MaxTasks : task_step(n)

SpecMigration == InitMigration /\ [][NextMigration]_vars

\* every kind of database operation of the store and of the engine, with
\* statements that go through and statements the backend rejects

PoolRecords ==
    {<<<<"t1">>, <<<<4, 3>>>>, <<"s1">>>>,
     <<<<"t1">>, <<BadEmbedding>>, <<"s1">>>>,
     <<<<"t1", "t2">>, <<<<4, 3>>, <<3, 4>>>>, <<"s1", "s2">>>>,
     <<<<"t1", "t2">>, <<<<4, 3>>, BadEmbedding>>, <<"s1", "s2">>>>}

\* no filter, and a filter that the backend rejects
PoolFilters == {NoFilter, PyItems(<<<<"page", PyItems(<<<<"$in", PyList(<<PyBool(TRUE)>>)>>>>)>>>>)}

PoolEngineArgs(method) ==
    IF method = "_fetch"
    THEN {[table_name |-> "", overwrite_existing |-> FALSE, query |-> Sql("select", "t1")]}
    ELSE {[table_name |-> "t1", overwrite_existing |-> o, query |-> NoQuery] : o \in BOOLEAN}

InitPool ==
    /\ cfg = CfgSearch
    /\ table = {}
    /\ prev = {}
    /\ last = NoOp
    /\ nuuid = 0
    /\ pool = NoConnections
    /\ engine = NoEngine
    /\ indexes = NoIndexes
    /\ tasks = NoTasks
    /\ main = NoMain

NextPool ==
    \/ create(SearchColumns, SearchArgs(HnswOptions))
    \/ \E r \in PoolRecords : aadd_embeddings(r[1], r[2], NoList, SomeList(r[3]))
    \/ \E ids \in {NoList, SomeList(<<"s1">>)} : adelete(ids)
    \/ \E ids \in {<<>>, <<"s1">>} : aget_by_ids(ids)
    \/ \E f \in PoolFilters : asimilarity_search_with_score_by_vector(<<1, 0>>, NoNum, f)
    \/ \E f \in PoolFilters : amax_marginal_relevance_search_with_score_by_vector(<<1, 0>>, NoNum, NoNum, NoNum, f)
    \/ \E service \in {Provider(TRUE, FALSE, FALSE), Provider(FALSE, FALSE, FALSE)} : aadd_images(service, <<"cat.png">>, NoList, SomeList(<<"s1">>), TRUE)
    \/ asimilarity_search_image(Provider(TRUE, FALSE, FALSE), "cat.png", NoNum, NoFilter)
    \/ \E index \in {ExactNearestNeighbor, ScaNNIndex(NoneS)}, concurrently \in BOOLEAN : aapply_vector_index(index, NoneS, concurrently)
    \/ adrop_vector_index(NoneS)
    \/ areindex(NoneS)
    \/ is_valid_index(NoneS)
    \/ from_instance
    \/ \E method \in {"init_vectorstore_table", "_fetch"} : \E a \in PoolEngineArgs(method) : sync_call(method, a)
    \/ \E a \in PoolEngineArgs("init_document_table") : async_call("init_document_table", a)
    \/ loop_step
    \/ take_result
    \/ Return

SpecPool == InitPool /\ [][NextPool]_vars

\* the stores of the interleaved calls: one whose typed columns have names of
\* their own and one whose typed columns are named like bind parameters
InterleavedCfgs == {WithOptions(CfgCustom, NoOptions), WithOptions(CfgBindNames, NoOptions)}

\* the batches of the interleaved calls: records under the same ids in both
\* orders, with different texts, embeddings and metadata, one under a
\* generated id and one the backend rejects
InterleavedInputs(c) ==
    LET typed == Range(c.metadata_columns)
        meta(v) == [x \in typed \cup {LeftoverKey} |-> v]
    IN  {[texts |-> <<"t1">>, embeddings |-> <<<<1, 0>>>>,
          metadatas |-> SomeList(<<meta("m1")>>), ids |-> SomeList(<<"i1">>)],
         [texts |-> <<"t2">>, embeddings |-> <<<<0, 1>>>>,
          metadatas |-> SomeList(<<meta("m2")>>), ids |-> SomeList(<<"i1">>)],
         [texts |-> <<"t1", "t2">>, embeddings |-> <<<<1, 0>>, <<0, 1>>>>,
          metadatas |-> NoList, ids |-> SomeList(<<"i1", "i2">>)],
         [texts |-> <<"t2", "t1">>, embeddings |-> <<<<0, 1>>, <<0, 1>>>>,
          metadatas |-> SomeList(<<meta("m1"), EmptyDict>>), ids |-> SomeList(<<"i2", "i1">>)],
         [texts |-> <<"t2">>, embeddings |-> <<<<0, 1>>>>,
          metadatas |-> SomeList(<<EmptyDict>>), ids |-> NoList],
         [texts |-> <<"t1">>, embeddings |-> <<BadEmbedding>>,
          metadatas |-> NoList, ids |-> SomeList(<<"i1">>)]}

InitInterleaved ==
    /\ cfg \in InterleavedCfgs
    /\ table = {}
    /\ prev = {}
    /\ last = NoOp
    /\ nuuid = 0
    /\ pool = NoConnections
    /\ engine = NoEngine
    /\ indexes = NoIndexes
    /\ tasks = NoTasks
    /\ main = NoMain

NextInterleaved ==
    \/ \E in \in InterleavedInputs(cfg) :
          /\ Len(tasks) < MaxCalls
          /\ ensure_future(in.texts, in.embeddings, in.metadatas, in.ids)
    \/ \E n \in 1..MaxCalls : task_step(n)

SpecInterleaved == InitInterleaved /\ [][NextInterleaved]_vars

\* the filters compiled: field conditions over every operator and kind of
\* value, the logical forms over lists of them, and mappings of several keys

FilterFields == {"a", "b", "not-a-name", "$gt"}

Scalars == {PyStr("x"), PyStr("ab"), PyStr("abc"), PyInt(1), PyBool(TRUE), PyNone}

\* lists of up to MaxValues values
ValueLists ==
    {PyList(l) : l \in UNION {[1..n -> {PyStr("x"), PyInt(1), PyBool(TRUE)}] :
                                n \in 0..MaxValues}}

OneKey(key, value) == PyItems(<<<<key, value>>>>)

Operands ==
    Scalars \cup ValueLists
        \cup {PyItems(<<<<"lo", PyInt(1)>>, <<"hi", PyInt(2)>>>>),
              PyItems(<<<<"lo", PyInt(1)>>>>)}

\* what a field is mapped to: a value, or a mapping of operators
Conditions ==
    Scalars
        \cup {OneKey(op, w) : op \in SUPPORTED_OPERATORS \cup {"$regex"}, w \in Operands}
        \cup {PyItems(<<>>),
              PyItems(<<<<"$gt", PyInt(1)>>, <<"$lt", PyInt(2)>>>>)}

FieldFilters == {OneKey(f, cond) : f \in FilterFields, cond \in Conditions}

\* the elements the logical forms are built from: accepted ones, rejected
\* ones, the empty mapping and something that is no mapping
Elements ==
    {OneKey("a", PyInt(1)), OneKey("b", PyStr("x")),
     OneKey("a", OneKey("$in", PyList(<<PyInt(1), PyInt(2)>>))),
     OneKey("$gt", PyInt(1)), PyItems(<<>>), PyStr("x")}

ElementLists == UNION {[1..n -> Elements] : n \in 0..MaxArgs}

LogicalKeys == {"$and", "$or", "$not", "$AND", "$Or", "$regex"}

LogicalFilters ==
    {OneKey(key, PyList(l)) : key \in LogicalKeys, l \in ElementLists}
        \cup {OneKey(key, e) : key \in LogicalKeys, e \in Elements}
        \cup {OneKey(key, PyList(<<OneKey(k2, PyList(l)), OneKey("b", PyStr("x"))>>)) :
                key \in {"$and", "$or", "$not"}, k2 \in {"$and", "$or", "$not"},
                l \in {e \in ElementLists : Len(e) <= 1}}

\* mappings of two keys and more, no key twice
ManyKeys ==
    {PyItems(kv) :
        kv \in {l \in UNION {[1..n -> {<<"a", PyInt(1)>>, <<"b", PyStr("x")>>,
                                       <<"not-a-name", PyInt(1)>>,
                                       <<"$and", PyList(<<>>)>>,
                                       <<"b", OneKey("$between", PyStr("ab"))>>}] :
                               n \in 2..(MaxArgs + 1)} :
                   \A i, j \in DOMAIN l : i # j => l[i][1] # l[j][1]}}

FilterInputs == FieldFilters \cup LogicalFilters \cup ManyKeys \cup {PyItems(<<>>), PyStr("x")}

InitFilter ==
    /\ cfg = CfgSearch
    /\ table = {}
    /\ prev = {}
    /\ last = NoOp
    /\ nuuid = 0
    /\ pool = NoConnections
    /\ engine = NoEngine
    /\ indexes = NoIndexes
    /\ tasks = NoTasks
    /\ main = NoMain

NextFilter ==
    \/ \E f \in FilterInputs : create_filter_clause(f)
    \/ Return

SpecFilter == InitFilter /\ [][NextFilter]_vars

----------------------------------------------------------------------------
(* What the claims speak of *)

\* the rows of tbl stored under id
RowsWithId(c, tbl, id) == {r \in tbl : r[c.id_column] = TextCell(PyStr(id))}

\* the rows of tbl stored under another id than those of ids
RowsOutside(c, tbl, ids) ==
    {r \in tbl : \A id \in ids : r[c.id_column] # TextCell(PyStr(id))}

\* the metadata keys that are not typed columns
Leftover(c, metadata) ==
    [x \in (DOMAIN metadata) \ Range(c.metadata_columns) |-> metadata[x]]

\* the row a record is to be stored as: its id, text and embedding in the id,
\* content and embedding columns, every typed column holding the metadata key
\* of its name or NULL, the JSON column holding the remaining keys
RecordRow(c, id, content, embedding, metadata) ==
    [col \in StoreColumns(c) |->
        IF col = c.id_column THEN TextCell(PyStr(id))
        ELSE IF col = c.content_column THEN TextCell(PyStr(content))
        ELSE IF col = c.embedding_column THEN VectorCell(embedding)
        ELSE IF col = c.metadata_json_column THEN JsonCell(Leftover(c, metadata))
        ELSE IF col \in DOMAIN metadata THEN TextCell(PyStr(metadata[col]))
        ELSE Null]

\* a call of aadd_embeddings has returned
Added == last.op = "aadd_embeddings" /\ ~last.raised

\* the i-th metadata dict of the last aadd_embeddings call
MetadataArg(i) == FilledMetadatas(last.args.texts, last.args.metadatas)[i]

\* the last call wrote one record under a caller's id that the table held
Rewrote ==
    /\ Added
    /\ Len(last.args.texts) = 1
    /\ Truthy(last.args.ids)
    /\ last.args.ids.v[1] # NoneS
    /\ RowsWithId(cfg, prev, last.args.ids.v[1]) # {}

\* no typed metadata column of the store is named like a bind parameter of the
\* insert statement
PlainNames(c) ==
    Range(c.metadata_columns) \cap {"langchain_id", "content", "embedding", "extra"} = {}

----------------------------------------------------------------------------
(* C1 *)

\* C1: writing a record whose id the table already holds leaves the number of
\* rows unchanged, leaves exactly one row under that id, which holds in every
\* column the value of the new record, and leaves the rows of other ids as
\* they were.
C1_UpsertReplaces ==
    Rewrote =>
        LET id == last.args.ids.v[1]
        IN  /\ Cardinality(table) = Cardinality(prev)
            /\ RowsWithId(cfg, table, id) =
                 {RecordRow(cfg, id, last.args.texts[1], last.args.embeddings[1],
                            MetadataArg(1))}
            /\ RowsOutside(cfg, table, {id}) = RowsOutside(cfg, prev, {id})

\* C1 in the stores whose typed columns are not named like bind parameters
C1_UpsertReplaces_PlainNames == PlainNames(cfg) => C1_UpsertReplaces

----------------------------------------------------------------------------
(* C2 *)

\* the metadata dict as a caller reads it
AsRead(metadata) == [x \in DOMAIN metadata |-> PyStr(metadata[x])]

\* C2: after aadd_embeddings has written a record, aget_by_ids of its id
\* returns one document whose page_content is the written text and whose
\* metadata is the written metadata dict, for every store configuration.
C2_RoundTrip ==
    Added =>
        \A i \in 1..Len(last.args.texts) :
            LET got == GetByIds(cfg, table, <<last.value[i]>>)
            IN  /\ ~got.raised
                /\ Len(got.value) = 1
                /\ got.value[1].page_content = PyStr(last.args.texts[i])
                /\ got.value[1].metadata = AsRead(MetadataArg(i))

\* C2 in the stores with a JSON metadata column and plainly named typed
\* columns, for the records whose metadata has a key for every typed column
C2_RoundTrip_Complete ==
    (/\ Added
     /\ PlainNames(cfg)
     /\ TruthyS(cfg.metadata_json_column)) =>
        \A i \in 1..Len(last.args.texts) :
            Range(cfg.metadata_columns) \subseteq DOMAIN MetadataArg(i) =>
                LET got == GetByIds(cfg, table, <<last.value[i]>>)
                IN  /\ ~got.raised
                    /\ Len(got.value) = 1
                    /\ got.value[1].page_content = PyStr(last.args.texts[i])
                    /\ got.value[1].metadata = AsRead(MetadataArg(i))

----------------------------------------------------------------------------
(* C3 *)

\* C3: adelete of None or of an empty list returns False, executes no
\* statement and leaves the table as it was; of any other list it returns
\* True, removes exactly the rows whose id is listed and leaves every other
\* row as it was.
C3_Delete ==
    last.op = "adelete" =>
        LET ids == last.args.ids
        IN  IF ~ids.some \/ ids.v = <<>>
            THEN last.value = FALSE /\ last.log = <<>> /\ table = prev
            ELSE /\ last.value = TRUE
                 /\ ~last.raised
                 /\ table \subseteq prev
                 /\ \A r \in prev :
                       r \in table <=>
                          \A i \in DOMAIN ids.v : r[cfg.id_column] # TextCell(PyStr(ids.v[i]))

\* adelete has removed a listed row, passed over an id the table did not hold
\* and kept another row
C3_Witness ==
    /\ last.op = "adelete"
    /\ last.value = TRUE
    /\ table # {}
    /\ table # prev
    /\ \E i \in DOMAIN last.args.ids.v : RowsWithId(cfg, prev, last.args.ids.v[i]) = {}

\* adelete of ids the table does not hold has returned True with no row removed
C3_WitnessAbsent ==
    /\ last.op = "adelete"
    /\ last.value = TRUE
    /\ table = prev
    /\ table # {}

----------------------------------------------------------------------------
(* C4 *)

\* C4: in the row written for a record every typed metadata column holds the
\* metadata key of its name, or NULL without such a key; the JSON metadata
\* column, when configured, holds exactly the keys that are not typed columns;
\* without a JSON column those keys are dropped and the write succeeds.
C4_MetadataSplit ==
    (/\ last.op = "aadd_embeddings"
     /\ Len(last.args.texts) = 1
     /\ Len(last.args.embeddings[1]) = VectorSize) =>
        /\ ~last.raised
        /\ \E r \in table :
              LET want == RecordRow(cfg, last.value[1], last.args.texts[1],
                                    last.args.embeddings[1], MetadataArg(1))
              IN  /\ r[cfg.id_column] = want[cfg.id_column]
                  /\ \A col \in Range(cfg.metadata_columns) : r[col] = want[col]
                  /\ TruthyS(cfg.metadata_json_column) =>
                        r[cfg.metadata_json_column] = want[cfg.metadata_json_column]
                  /\ DOMAIN r = StoreColumns(cfg)

\* C4 in the stores whose typed columns are not named like bind parameters
C4_MetadataSplit_PlainNames == PlainNames(cfg) => C4_MetadataSplit

----------------------------------------------------------------------------
(* C5 *)

\* the ids of the rows of tbl, as str
IdsOf(c, tbl) == {r[c.id_column] : r \in tbl}

\* C5: aadd_embeddings returns one id per input record: the caller's id where
\* one was supplied, a generated id, distinct from every other id, where ids
\* was omitted or the entry was None; the i-th record is stored under the
\* i-th returned id, so n records under pairwise distinct new ids add n rows.
C5_ReturnedIds ==
    Added =>
        LET n == Len(last.args.texts)
            ids == last.args.ids
            given(i) == Truthy(ids) /\ ids.v[i] # NoneS
            distinct == \A i, j \in 1..n : i # j => last.value[i] # last.value[j]
        IN  /\ Len(last.value) = n
            /\ \A i \in 1..n :
                  IF given(i) THEN last.value[i] = ids.v[i]
                  ELSE /\ TextCell(PyStr(last.value[i])) \notin IdsOf(cfg, prev)
                       /\ \A j \in 1..n : j # i => last.value[j] # last.value[i]
            /\ distinct =>
                  \A i \in 1..n :
                      \E r \in RowsWithId(cfg, table, last.value[i]) :
                          /\ r[cfg.content_column] = TextCell(PyStr(last.args.texts[i]))
                          /\ r[cfg.embedding_column] = VectorCell(last.args.embeddings[i])
            /\ (distinct /\ \A i \in 1..n : RowsWithId(cfg, prev, last.value[i]) = {}) =>
                  Cardinality(table) = Cardinality(prev) + n

\* C5 in the stores whose typed columns are not named like bind parameters
C5_ReturnedIds_PlainNames == PlainNames(cfg) => C5_ReturnedIds

----------------------------------------------------------------------------
(* C6 *)

\* the statements a call that got through its first m records has executed
StatementsOf(m) ==
    [j \in 1..(2 * m) |->
        [stmt |-> IF j % 2 = 1 THEN "upsert" ELSE "commit",
         record |-> (j + 1) \div 2, ok |-> TRUE]]

\* the first m elements of an optional list
Prefix(l, m) == IF l.some THEN SomeList(Take(l.v, m)) ELSE l

\* the table a call of aadd_embeddings with only the first m records of the
\* last call leaves
AfterFirst(m) ==
    AddEmbeddings(cfg, prev, nuuid - FreshCount(last.args.texts, last.args.ids),
                  Take(last.args.texts, m), Take(last.args.embeddings, m),
                  Prefix(last.args.metadatas, m), Prefix(last.args.ids, m))

\* C6: aadd_embeddings executes and commits one statement per record, in
\* input order; when the statement of a record fails the call raises, the
\* records before it stay committed and that record and the later ones are
\* not written: the table is the one a call with only the earlier records
\* leaves, and no statement follows the failed one.
C6_PartialWrite ==
    last.op = "aadd_embeddings" =>
        LET n == Len(last.args.texts)
        IN  IF last.raised
            THEN \E i \in 1..n :
                    /\ last.log = Append(StatementsOf(i - 1),
                                         [stmt |-> "upsert", record |-> i, ok |-> FALSE])
                    /\ ~AfterFirst(i - 1).raised
                    /\ table = AfterFirst(i - 1).table
            ELSE last.log = StatementsOf(n)

\* a batch has failed at its second record with its first record committed
C6_Witness ==
    /\ last.op = "aadd_embeddings"
    /\ last.raised
    /\ Len(last.args.texts) >= 2
    /\ Len(last.log) = 3
    /\ table # prev

----------------------------------------------------------------------------
(* Search claims *)

\* a call of asimilarity_search_with_score_by_vector has returned
Searched == last.op = "asimilarity_search_with_score_by_vector" /\ ~last.raised

\* a call of amax_marginal_relevance_search_with_score_by_vector has returned
Reranked ==
    last.op = "amax_marginal_relevance_search_with_score_by_vector" /\ ~last.raised

\* the rows of tbl that satisfy a filter
Eligible(c, tbl, filter) ==
    IF filter = NoFilter THEN tbl
    ELSE {r \in tbl : EvalSql(c, r, CreateFilterClause(filter).clause) = "true"}

\* the distance of a row to a query vector
DistanceOf(c, r, query) == SearchFunction(r[c.embedding_column].v, query)

\* out is exactly the n nearest rows of el, nearest first, each paired with
\* its own distance
NearestRows(c, out, el, query, n) ==
    /\ Len(out) = Min(n, Cardinality(el))
    /\ \A i \in DOMAIN out :
          \E r \in el : out[i] = <<DecodeDocument(c, r), DistanceOf(c, r, query)>>
    /\ \A i, j \in DOMAIN out : i # j => out[i][1].id # out[j][1].id
    /\ \A i, j \in DOMAIN out : i < j => out[i][2] <= out[j][2]
    /\ \A r \in el :
          (\A i \in DOMAIN out : out[i][1] # DecodeDocument(c, r))
             => \A i \in DOMAIN out : out[i][2] <= DistanceOf(c, r, query)

\* C7: a similarity search returns exactly the min(k, number of eligible rows)
\* nearest eligible rows, k being the argument or the store-level k when the
\* argument is omitted, in non-decreasing distance order, each paired with its
\* own distance, and never a row that fails the filter
C7_SimilarityResult ==
    Searched =>
        NearestRows(cfg, last.value,
                    Eligible(cfg, table, last.args.filter), last.args.embedding,
                    IF last.args.k.some THEN last.args.k.n ELSE cfg.k)

\* C7, for every k but 0: the same result, a k of 0 counting as omitted
C7_SimilarityResult_ZeroAsOmitted ==
    Searched =>
        NearestRows(cfg, last.value,
                    Eligible(cfg, table, last.args.filter), last.args.embedding,
                    IF TruthyN(last.args.k) THEN last.args.k.n ELSE cfg.k)

\* the number of rows the last search asked the table for
Requested == last.log[1].limit

\* C8: the re-ranking asks the table for the effective fetch_k rows, the
\* argument or the store-level fetch_k when the argument is omitted
C8_FetchesFetchK ==
    Reranked =>
        Requested = IF last.args.fetch_k.some THEN last.args.fetch_k.n
                    ELSE cfg.fetch_k

\* C8, as the code has it: a fetch_k that is omitted or 0 asks for the
\* store-level k rows
C8_FetchesStoreK ==
    Reranked =>
        Requested = IF TruthyN(last.args.fetch_k) THEN last.args.fetch_k.n
                    ELSE cfg.k

\* the candidates of the last re-ranking, in fetch order
Candidates == last.local.documents_with_scores

\* C9: the re-ranking returns the selected candidates in the order the greedy
\* selection picked them, each with the pairing of the fetch, none twice, and
\* at most k of them
C9_SelectionOrder ==
    Reranked =>
        LET sel == MaximalMarginalRelevance(
                       last.args.embedding,
                       [i \in DOMAIN Candidates |->
                          last.local.results[i].row[cfg.embedding_column].v],
                       last.local.lambda_mult, last.local.k)
        IN  /\ last.value = [i \in DOMAIN sel |-> Candidates[sel[i]]]
            /\ \A i, j \in DOMAIN last.value :
                  i # j => last.value[i][1].id # last.value[j][1].id
            /\ Len(last.value)
                  <= (IF last.args.k.some THEN last.args.k.n ELSE cfg.k)

\* C9, as the code has it: the selected candidates in fetch order, each with
\* the pairing of the fetch, none twice, at most k of them, a k of 0 counting
\* as omitted
C9_FetchOrder ==
    Reranked =>
        /\ \E keep \in SUBSET (DOMAIN Candidates) :
              /\ keep = Range(last.local.mmr_selected)
              /\ last.value = SelectedInFetchOrder(Candidates, last.local.mmr_selected)
              /\ Len(last.value) = Cardinality(keep)
        /\ \A i, j \in DOMAIN last.value :
              i # j => last.value[i][1].id # last.value[j][1].id
        /\ Len(last.value)
              <= (IF TruthyN(last.args.k) THEN last.args.k.n ELSE cfg.k)

\* the output of the plain similarity search for the vector, k and filter of
\* the last re-ranking
PlainSimilarity ==
    DocumentsWithScores(cfg,
        QueryCollection(cfg, table, last.args.embedding, last.args.k,
                        last.args.filter).results)

\* C10: with lambda_mult = 1 the re-ranking returns what the plain similarity
\* search returns for the same vector and filter, truncated to k
C10_LambdaOne ==
    (Reranked /\ last.args.lambda_mult = SomeNum(2)) =>
        last.value = Take(PlainSimilarity,
                          IF last.args.k.some THEN last.args.k.n ELSE cfg.k)

\* C10, as the code has it: truncated to k and to the number of candidates
\* the re-ranking fetched, a k of 0 counting as omitted
C10_LambdaOne_Fetched ==
    (Reranked /\ last.args.lambda_mult = SomeNum(2)) =>
        last.value = Take(PlainSimilarity, Min(last.local.k, Requested))

----------------------------------------------------------------------------
(* Filter compiler claims *)

\* a call of _create_filter_clause has returned or raised
Compiled == last.op = "_create_filter_clause"

\* the filter of the last compilation
Filter == last.args.filters

\* filters is {field: {operator: operand}} with a valid field name and an
\* operator of ops
FieldCondition(filters, ops) ==
    /\ filters.kind = "dict"
    /\ Len(filters.items) = 1
    /\ IsIdentifier(filters.items[1][1])
    /\ filters.items[1][2].kind = "dict"
    /\ Len(filters.items[1][2].items) = 1
    /\ filters.items[1][2].items[1][1] \in ops

FieldOf(filters) == filters.items[1][1]
OperatorOf(filters) == filters.items[1][2].items[1][1]
OperandOf(filters) == filters.items[1][2].items[1][2]

\* "(v1, v2, .., vn)": the values in order, one separator between neighbours
ValueListText(vals) ==
    LET RECURSIVE Rest(_)
        Rest(j) == IF j > Len(vals) THEN <<>>
                   ELSE <<Tok(", "), Lit(Repr(vals[j]))>> \o Rest(j + 1)
    IN  <<Tok("("), Lit(Repr(vals[1]))>> \o Rest(2) \o <<Tok(")")>>

\* the last compilation is of $in / $nin over a list of at least `least`
\* values that are strings, numbers or booleans
MembershipOver(least) ==
    /\ Compiled
    /\ FieldCondition(Filter, {"$in", "$nin"})
    /\ OperandOf(Filter).kind = "list"
    /\ Len(OperandOf(Filter).v) >= least
    /\ \A j \in DOMAIN OperandOf(Filter).v :
          OperandOf(Filter).v[j].kind \in {"str", "int", "bool"}

\* the membership predicate over the values given, or a rejection when a
\* boolean is among them
MembershipCompiled ==
    IF \E j \in DOMAIN OperandOf(Filter).v : OperandOf(Filter).v[j].kind = "bool"
    THEN last.raised
    ELSE /\ ~last.raised
         /\ last.value = [node |-> "in", field |-> FieldOf(Filter),
                          negated |-> OperatorOf(Filter) = "$nin",
                          values |-> ValueListText(OperandOf(Filter).v)]

\* C11: {field: {"$in": values}} over a non-empty list of strings and
\* non-boolean numbers compiles to (field IN (v1, .., vn)), and $nin to
\* (field NOT IN (v1, .., vn)), with exactly the given values in order and no
\* extra separator; a list with a boolean in it is rejected
C11_Membership == MembershipOver(1) => MembershipCompiled

\* C11, for lists of two values and more
C11_Membership_TwoOrMore == MembershipOver(2) => MembershipCompiled

\* the last compilation is of {"$and": value} or {"$or": value}
LogicalForm ==
    /\ Compiled
    /\ Filter.kind = "dict"
    /\ Len(Filter.items) = 1
    /\ Filter.items[1][1] \in {"$and", "$or"}

\* the compiled elements of a list of filters
SubPredicates(l) == [j \in DOMAIN l |-> CreateFilterClause(l[j])]

\* the last compilation is of a mapping of two field keys or more
SeveralFields ==
    /\ Compiled
    /\ Filter.kind = "dict"
    /\ Len(Filter.items) >= 2
    /\ \A j \in DOMAIN Filter.items : ~StartsWithDollar(Filter.items[j][1])

\* C12: {"$and": [e1..en]} and {"$or": [e1..en]} compile, for n >= 2, to the
\* parenthesised sub-predicates joined by AND / OR in list order and, for
\* n = 1, to the sub-predicate alone; an empty list and a value that is no
\* list are rejected; a mapping of two field keys or more compiles to the
\* parenthesised AND of the field predicates in key order, as the $and of the
\* one-key mappings does
C12_Conjunctions ==
    /\ LogicalForm =>
          LET value == Filter.items[1][2]
              op == IF Filter.items[1][1] = "$and" THEN "and" ELSE "or"
          IN  IF value.kind # "list" \/ value.v = <<>> THEN last.raised
              ELSE LET subs == SubPredicates(value.v)
                   IN  (\A j \in DOMAIN subs : ~subs[j].err) =>
                          /\ ~last.raised
                          /\ last.value =
                                IF Len(subs) = 1 THEN subs[1].clause
                                ELSE [node |-> op,
                                      args |-> [j \in DOMAIN subs |-> subs[j].clause]]
    /\ SeveralFields =>
          LET ones == [j \in DOMAIN Filter.items |->
                          OneKey(Filter.items[j][1], Filter.items[j][2])]
              subs == SubPredicates(ones)
              explicit == CreateFilterClause(OneKey("$and", PyList(ones)))
          IN  /\ last.raised = explicit.err
              /\ last.value = explicit.clause
              /\ (\A j \in DOMAIN subs : ~subs[j].err) =>
                    /\ ~last.raised
                    /\ last.value = [node |-> "and",
                                     args |-> [j \in DOMAIN subs |-> subs[j].clause]]

\* a disjunction of two different predicates has been compiled
C12_Witness ==
    /\ LogicalForm
    /\ ~last.raised
    /\ Filter.items[1][1] = "$or"
    /\ Filter.items[1][2].kind = "list"
    /\ Len(Filter.items[1][2].v) = 2
    /\ last.value.node = "or"
    /\ Len(last.value.args) = 2
    /\ last.value.args[1] # last.value.args[2]

\* a mapping of two field keys has been compiled
C12_WitnessFields ==
    /\ SeveralFields
    /\ ~last.raised
    /\ last.value.node = "and"
    /\ last.value.args[1] # last.value.args[2]

\* a name made of letters, digits and underscores that starts with no digit
ValidName(name) ==
    /\ name # ""
    /\ SubSeq(name, 1, 1) \in Letters
    /\ \A j \in 1..Len(name) : SubSeq(name, j, j) \in Letters \cup Digits

\* a key that starts with '$'
DollarKey(key) == key # "" /\ SubSeq(key, 1, 1) = "$"

\* the field condition {field: value} breaks rule (c) or (d)
BadFieldCondition(field, value) ==
    \/ ~ValidName(field)
    \/ /\ value.kind = "dict"
       /\ \/ Len(value.items) > 1
          \/ Len(value.items) = 1 /\ value.items[1][1] \notin SUPPORTED_OPERATORS

\* the filter breaks one of the rules (a) to (d) at some nesting level; the
\* keys of `logical` are those taken for $and, $or and $not
RECURSIVE BreaksKeyRules(_, _)
BreaksKeyRules(filters, logical) ==
    /\ filters.kind = "dict"
    /\ \/ /\ Len(filters.items) = 1
          /\ LET key == filters.items[1][1]
                 value == filters.items[1][2]
             IN  IF DollarKey(key)
                 THEN \/ key \notin logical
                      \/ /\ value.kind = "list"
                         /\ \E j \in DOMAIN value.v : BreaksKeyRules(value.v[j], logical)
                      \/ /\ value.kind = "dict"
                         /\ BreaksKeyRules(value, logical)
                 ELSE BadFieldCondition(key, value)
       \/ /\ Len(filters.items) >= 2
          /\ \E j \in DOMAIN filters.items :
                \/ DollarKey(filters.items[j][1])
                \/ BadFieldCondition(filters.items[j][1], filters.items[j][2])

\* the names in field position of a predicate
RECURSIVE FieldPositions(_)
FieldPositions(x) ==
    IF x = <<>> THEN {}
    ELSE IF x.node \in {"and", "or"}
    THEN UNION {FieldPositions(x.args[j]) : j \in DOMAIN x.args}
    ELSE IF x.node = "not" THEN FieldPositions(x.arg)
    ELSE {x.field}

\* every name in field position of the predicate compiled last is a valid
\* identifier without '$'
FieldsAreNames ==
    (Compiled /\ ~last.raised) =>
        \A f \in FieldPositions(last.value) : ValidName(f) /\ ~DollarKey(f)

\* C13: at every nesting level the compiler rejects, with no predicate, (a) a
\* one-key mapping whose key starts with '$' and is not $and, $or or $not,
\* (b) a mapping of several keys one of which starts with '$', (c) a field
\* name that is no valid identifier and (d) a field condition of several
\* operators or of an unsupported operator; so no accepted filter has a
\* '$'-prefixed token or a non-identifier in field position
C13_KeyRules ==
    /\ (Compiled /\ BreaksKeyRules(Filter, {"$and", "$or", "$not"})) =>
          last.raised /\ last.value = <<>>
    /\ FieldsAreNames

\* C13, with $and, $or and $not taken in any letter case
C13_KeyRules_AnyCase ==
    /\ (Compiled /\ BreaksKeyRules(Filter, {k \in LogicalKeys :
                                              Lower(k) \in {"$and", "$or", "$not"}})) =>
          last.raised /\ last.value = <<>>
    /\ FieldsAreNames

\* a filter has been rejected for a rule broken below its top level
C13_Witness ==
    /\ Compiled
    /\ last.raised
    /\ Filter.kind = "dict"
    /\ Len(Filter.items) = 1
    /\ Filter.items[1][1] = "$and"
    /\ Filter.items[1][2].kind = "list"
    /\ Len(Filter.items[1][2].v) = 2
    /\ ~BreaksKeyRules(Filter.items[1][2].v[1], {"$and", "$or", "$not"})
    /\ BreaksKeyRules(Filter.items[1][2].v[2], {"$and", "$or", "$not"})

\* the last compilation is of {field: {"$between": v}}
BetweenCompiled == Compiled /\ FieldCondition(Filter, {"$between"})

\* v is a list of exactly two elements
LowHighPair(v) == v.kind = "list" /\ Len(v.v) = 2

\* C14: {field: {"$between": v}} yields a predicate only when v is a
\* sequence of exactly two elements; every other v, a sequence of another
\* length, a scalar, a string or a mapping, fails with the malformed-filter
\* error
C14_Between ==
    BetweenCompiled =>
        IF LowHighPair(OperandOf(Filter))
        THEN ~last.raised /\ last.value.node = "between"
        ELSE last.raised /\ last.local.exc = "ValueError"

\* C14, for lists only: two elements compile, any other length fails with
\* the malformed-filter error
C14_Between_Lists ==
    (BetweenCompiled /\ OperandOf(Filter).kind = "list") =>
        IF LowHighPair(OperandOf(Filter))
        THEN ~last.raised /\ last.value.node = "between"
        ELSE last.raised /\ last.local.exc = "ValueError"

\* the literals written into the value list of a membership predicate
ListLiterals(toks) == {toks[j].literal : j \in {n \in DOMAIN toks : toks[n].tok = "literal"}}

\* the values as they are written into a predicate of one field condition
LiteralsOf(x) ==
    CASE x.node = "cmp" -> {x.literal}
      [] x.node = "between" -> {x.low, x.high}
      [] x.node = "in" -> ListLiterals(x.values)
      [] x.node = "like" -> {x.literal}
      [] OTHER -> {}

\* the last compilation accepted a field condition over strings, numbers
\* and booleans
ValuesRendered ==
    /\ Compiled
    /\ ~last.raised
    /\ Filter.kind = "dict"
    /\ Len(Filter.items) = 1
    /\ ~DollarKey(Filter.items[1][1])
    /\ \A l \in LiteralsOf(last.value) : l.v.kind \in {"str", "int", "bool"}

\* C15: in a compiled predicate every string value is a quoted literal and
\* every numeric or boolean value is inlined unquoted, whatever the operator
C15_Rendering ==
    ValuesRendered =>
        \A l \in LiteralsOf(last.value) : l.quoted <=> l.v.kind = "str"

\* C15, for the comparison operators and $in / $nin
C15_Rendering_Comparisons ==
    (ValuesRendered /\ last.value.node \in {"cmp", "in"}) =>
        \A l \in LiteralsOf(last.value) : l.quoted <=> l.v.kind = "str"

----------------------------------------------------------------------------
(* Search and connection claims *)

\* a search, plain or max-marginal-relevance, has returned or raised
SearchCalled ==
    last.op \in {"asimilarity_search_with_score_by_vector",
                 "amax_marginal_relevance_search_with_score_by_vector"}

\* the search was given a mapping filter that the compiler rejects
FilterRejected ==
    /\ SearchCalled
    /\ last.args.filter.kind = "dict"
    /\ CreateFilterClause(last.args.filter).err

\* C16: a search called with a mapping filter that the compiler rejects
\* raises before any connection is acquired or any statement is executed,
\* and leaves the table and the pool unchanged
C16_CompileFirst ==
    FilterRejected =>
        /\ last.raised
        /\ last.local.conn = <<>>
        /\ last.log = <<>>
        /\ table = prev
        /\ pool = NoConnections

\* a search of a store with index query options and of a table with rows
\* has been rejected by the compiler
C16_Witness ==
    /\ FilterRejected
    /\ last.op = "amax_marginal_relevance_search_with_score_by_vector"
    /\ cfg.index_query_options # NoOptions
    /\ table # {}
    /\ last.raised

C16_WitnessPlain ==
    /\ FilterRejected
    /\ last.op = "asimilarity_search_with_score_by_vector"
    /\ table # {}
    /\ last.raised

\* the search of a store with index query options has reached its connection
OptionsSearched ==
    /\ SearchCalled
    /\ cfg.index_query_options # NoOptions
    /\ last.local.conn # <<>>

\* the events of the connection are the checkout, SET LOCAL for every option
\* in order, the search statement, the release: one connection, every option
\* before the search statement, no other statement and no commit
OptionsThenSearch ==
    LET conn == last.local.conn
        params == cfg.index_query_options.params
        n == Len(params)
    IN  /\ Len(conn) = n + 3
        /\ conn[1] = Connect
        /\ \A j \in 1..n :
              /\ conn[j + 1].ev = "execute"
              /\ conn[j + 1].stmt.stmt = "set local"
              /\ conn[j + 1].stmt.option = params[j]
        /\ conn[n + 2].ev = "execute"
        /\ conn[n + 2].stmt.stmt = "select"
        /\ conn[n + 3] = Release

\* C20: the index query options are each set as a session-local setting on
\* the connection of the search statement, all before that statement with no
\* other statement or commit in between, and once the search has returned
\* none of them is in effect on any connection
C20_OptionsScoped ==
    /\ OptionsSearched => OptionsThenSearch /\ pool.settings = {} /\ pool.out = 0
    /\ pool.settings = {}

\* a search under two query options has returned rows
C20_Witness ==
    /\ OptionsSearched
    /\ Len(cfg.index_query_options.params) = 2
    /\ ~last.raised
    /\ last.value # <<>>

----------------------------------------------------------------------------
(* Construction claims *)

\* a call of create has returned or raised
Created == last.op = "create"

\* the type that information_schema reports of a column that exists
UdtName(columns, name) ==
    LET j == CHOOSE n \in DOMAIN columns : columns[n][1] = name
    IN  columns[j][3]

\* the conditions of create on the table and the arguments; IsVector(columns,
\* name) is the condition on the embedding column
Gate(columns, a, IsVector(_, _)) ==
    /\ {a.id_column, a.content_column, a.embedding_column} \subseteq ColumnNames(columns)
    /\ UdtName(columns, a.content_column) \in {"text", "varchar", "bpchar"}
    /\ IsVector(columns, a.embedding_column)
    /\ Range(a.metadata_columns) \subseteq ColumnNames(columns)
    /\ ~(a.metadata_columns # <<>> /\ Truthy(a.ignore_metadata_columns))

VectorTyped(columns, name) == UdtName(columns, name) = "vector"

UserDefined(columns, name) == DataType(columns, name) = "USER-DEFINED"

\* the constructor called directly without the key raises
ConstructorGuarded ==
    (last.op = "__init__" /\ last.args.key # CreateKey) =>
        last.raised /\ last.value = <<>>

\* C17: create returns a store only if the id, content and embedding columns
\* exist, the content column is a character-string type, the embedding
\* column is a vector type, every listed metadata column exists and not both
\* metadata_columns and ignore_metadata_columns are given; otherwise it fails
\* with a configuration error; the constructor called directly without the
\* private key always raises
C17_CreateGate ==
    /\ Created =>
          IF Gate(last.args.columns, last.args.a, VectorTyped)
          THEN TRUE
          ELSE last.raised /\ last.local.exc = "ValueError" /\ last.value = <<>>
    /\ ConstructorGuarded

\* C17, with any user-defined type taken for the vector type
C17_CreateGate_UserDefined ==
    /\ Created =>
          IF Gate(last.args.columns, last.args.a, UserDefined)
          THEN TRUE
          ELSE last.raised /\ last.local.exc = "ValueError" /\ last.value = <<>>
    /\ ConstructorGuarded

----------------------------------------------------------------------------
(* Engine claims *)

\* a call of an engine method, synchronous or async, has returned or raised
EngineCalled(sync, loop) ==
    /\ last.op \in SyncMethods
    /\ last.local.sync = sync
    /\ last.local.loop = loop

\* the coroutine of a call awaited to its end on the database db
RECURSIVE Awaited(_, _)
Awaited(db, coro) ==
    IF coro.todo = <<>> THEN [db |-> db, coro |-> coro]
    ELSE Awaited(StepCoroutine(db, coro).db, StepCoroutine(db, coro).coro)

\* the last call ended as awaiting its coroutine ends: same result or
\* failure, same statements, same database
AsAwaited ==
    LET run == Awaited(last.local.before,
                       Coroutine(last.op, last.args, last.local.sync, last.local.before))
    IN  /\ last.local.state = "done"
        /\ last.raised = (run.coro.exc # "")
        /\ last.local.exc = run.coro.exc
        /\ last.value = run.coro.result
        /\ last.log = run.coro.log
        /\ engine.db = run.db

\* C18: an engine made by from_engine, without a loop, rejects every
\* synchronous call at once with an error, without running the coroutine and
\* without executing a statement; its async methods remain usable
C18_NoLoop ==
    /\ EngineCalled(TRUE, FALSE) =>
          /\ last.raised
          /\ last.local.exc = "Exception"
          /\ last.local.state = "created"
          /\ last.log = <<>>
          /\ engine.db = last.local.before
    /\ EngineCalled(FALSE, FALSE) => AsAwaited

\* a synchronous call on a loop-less engine has been rejected after an async
\* call made a table
C18_Witness ==
    /\ EngineCalled(TRUE, FALSE)
    /\ last.op = "init_vectorstore_table"
    /\ last.raised
    /\ engine.db # {}

C18_WitnessAsync ==
    /\ EngineCalled(FALSE, FALSE)
    /\ last.op = "init_vectorstore_table"
    /\ ~last.raised
    /\ last.args.table_name \in engine.db

\* C19: on an engine that owns a loop a synchronous call made from another
\* thread returns only after its coroutine has finished on the loop, returns
\* the coroutine's result or raises its failure, and leaves the database as
\* awaiting the async counterpart does
C19_Bridge ==
    /\ EngineCalled(TRUE, TRUE) => AsAwaited
    /\ EngineCalled(FALSE, TRUE) => AsAwaited

\* a synchronous call of several statements has returned, and one has raised
\* the failure of its coroutine
C19_Witness ==
    /\ EngineCalled(TRUE, TRUE)
    /\ last.op = "init_vectorstore_table"
    /\ Len(last.log) = 3
    /\ ~last.raised
    /\ engine.db # last.local.before

C19_WitnessFailure ==
    /\ EngineCalled(TRUE, TRUE)
    /\ last.raised
    /\ last.local.exc = "DuplicateTableError"

----------------------------------------------------------------------------
(* Vector index claims *)

\* the no-op index variant has been applied
ExactApplied ==
    /\ last.op = "aapply_vector_index"
    /\ IsExact(last.args.index)
    /\ ~last.raised

\* the names an index can have been created under
CreatedNames == {DefaultIndexName, OwnIndexName, ExplicitIndexName}

\* C21: after the no-op (exact nearest neighbour) index variant has been
\* applied, is_valid_index is false for every name an index was created
\* under through aapply_vector_index: the default name, the descriptor's own
\* name or an explicit name argument
C21_NoOpDropsAll ==
    ExactApplied => \A n \in CreatedNames : ~IsValidIndex(indexes, n)

\* an index other than the no-op variant has been applied
IndexApplied == last.op = "aapply_vector_index" /\ ~IsExact(last.args.index)

\* the statements of the call that come before those of the index build: the
\* extension's, when the index names one
ExtensionPart ==
    IF TruthyS(last.args.index.extension_name)
    THEN <<[stmt |-> "create extension", name |-> last.args.index.extension_name, ok |-> TRUE],
           [stmt |-> "commit", name |-> "", ok |-> TRUE]>>
    ELSE <<>>

\* the statements of the call from the index build on
BuildPart == SubSeq(last.log, Len(ExtensionPart) + 1, Len(last.log))

\* the events of the connection of the index build
BuildEvents ==
    SubSeq(last.local.conn,
           (IF ExtensionPart = <<>> THEN 0 ELSE Len(OnConnection(ExtensionPart))) + 1,
           Len(last.local.conn))

\* C26: in concurrent mode aapply_vector_index executes, on one connection,
\* a COMMIT statement first and the CREATE INDEX CONCURRENTLY statement
\* second, and no commit after it, so that the build is not inside an open
\* transaction; in non-concurrent mode it executes CREATE INDEX and then
\* commits; in both modes the CREATE EXTENSION IF NOT EXISTS statement of an
\* index that names an extension is executed and committed before the index
\* statement
C26_StatementOrder ==
    IndexApplied =>
        /\ SubSeq(last.log, 1, Len(ExtensionPart)) = ExtensionPart
        /\ BuildEvents = OnConnection(BuildPart)
        /\ Len(BuildPart) >= 1
        /\ last.args.concurrently =>
             /\ Len(BuildPart) = 2
             /\ BuildPart[1] = [stmt |-> "COMMIT", name |-> "", ok |-> TRUE]
             /\ BuildPart[2].stmt = "create index"
             /\ BuildPart[2].ok <=> ~last.raised
             /\ ~last.raised => ResolvedName(last.args.index, last.args.name) \in indexes.index
        /\ ~last.args.concurrently =>
             /\ BuildPart[1].stmt = "create index"
             /\ BuildPart[1].ok <=> ~last.raised
             /\ ~last.raised =>
                  /\ Len(BuildPart) = 2
                  /\ BuildPart[2] = [stmt |-> "commit", name |-> "", ok |-> TRUE]
                  /\ ResolvedName(last.args.index, last.args.name) \in indexes.index

\* an index that names an extension has been built concurrently
C26_Witness ==
    /\ IndexApplied
    /\ last.args.concurrently
    /\ TruthyS(last.args.index.extension_name)
    /\ ~last.raised
    /\ Len(last.log) = 4

----------------------------------------------------------------------------
(* Image claims *)

\* an image operation was attempted with a provider that has neither
\* embed_images nor embed_image
ImageCallWithoutCapability ==
    /\ last.op \in {"aadd_images", "asimilarity_search_image"}
    /\ ~last.args.service.embed_images
    /\ ~last.args.service.embed_image

\* C22: an image operation attempted with an embedding provider that has
\* neither embed_images nor embed_image raises before any image is downloaded
\* from a remote URI and before any database statement is executed
C22_CapabilityFirst ==
    ImageCallWithoutCapability =>
        /\ last.raised
        /\ \A i \in DOMAIN last.local.reads : last.local.reads[i].ev # "download"
        /\ last.log = <<>>

----------------------------------------------------------------------------
(* Migration claims *)

\* main has reached its 'Migration completed' report
MigrationCompleted == main.pc = "completed"

\* the documents of the source collection
SourceDocs == UNION {Range(main.source[i]) : i \in DOMAIN main.source}

\* the row a document of the source is to be stored as
DocRow(c, doc) ==
    RecordRow(c, doc.pk, doc.text, doc.vector, [x \in {"idv"} |-> doc.idv])

\* C23: whenever main reaches its 'Migration completed' report, every batch
\* the source iterator yielded has been written to the table by a finished
\* aadd_embeddings task: one task per page, none pending, none failed, and
\* the table holds one row per source document
C23_MigrationComplete ==
    MigrationCompleted =>
        /\ Len(tasks) = Len(main.source)
        /\ \A n \in DOMAIN tasks : tasks[n].state = "done"
        /\ table = {DocRow(cfg, doc) : doc \in SourceDocs}
        /\ Cardinality(table) = Cardinality(SourceDocs)

\* C23 for the source collections every document of which the table accepts
C23_MigrationComplete_Accepted ==
    (\A doc \in SourceDocs : doc.vector # BadEmbedding) => C23_MigrationComplete

\* the tasks main has started that are not finished
Running == {n \in DOMAIN tasks : ~Finished(tasks[n])}

\* C28: at every point of main's insert loop the number of aadd_embeddings
\* tasks started and not yet finished is at most max_concurrency
C28_BoundedConcurrency ==
    main.pc # "none" => Cardinality(Running) <= main.max_concurrency

\* max_concurrency tasks are unfinished while the source has pages left, and
\* main waits
C28_Witness ==
    /\ main.pc = "wait_first"
    /\ main.pages # <<>>
    /\ main.max_concurrency > 1
    /\ Cardinality(Running) = main.max_concurrency

----------------------------------------------------------------------------
(* Re-ranking parameter claims *)

\* C24: in amax_marginal_relevance_search_with_score_by_vector the lambda_mult
\* the selection uses is the caller's argument for every value in [0, 1], 0
\* included, and the store's default only when the argument is omitted; the k
\* it uses is the caller's k whenever one is given
C24_ExplicitParameters ==
    Reranked =>
        /\ last.local.lambda_mult =
             IF last.args.lambda_mult.some THEN last.args.lambda_mult.n ELSE cfg.lambda_mult
        /\ last.args.k.some => last.local.k = last.args.k.n

\* C24 for the arguments other than 0
C24_ExplicitParameters_NonZero ==
    (/\ Reranked
     /\ last.args.lambda_mult # SomeNum(0)
     /\ last.args.k # SomeNum(0)) => C24_ExplicitParameters

----------------------------------------------------------------------------
(* Ignore-list claims *)

\* create has returned a store made in ignore-list mode
CreatedIgnoring ==
    /\ last.op = "create"
    /\ ~last.raised
    /\ Truthy(last.args.a.ignore_metadata_columns)

\* the columns the store designates for the id, the content, the embedding
\* and the JSON metadata
Designated(store) ==
    {store.id_column, store.content_column, store.embedding_column}
        \cup (IF TruthyS(store.metadata_json_column) THEN {store.metadata_json_column}
              ELSE {})

\* the column list of the insert statement the store builds for a record
InsertColumns(store) == BuildUpsert(store, "i1", "t1", <<1, 0>>, EmptyDict).columns

\* C25: when create is given ignore_metadata_columns, the typed metadata
\* columns of the store are exactly the table's columns minus the ignored
\* ones and minus the store's designated columns (id, content, embedding,
\* JSON metadata), and no column is named twice in an insert statement
C25_IgnoreList ==
    CreatedIgnoring =>
        /\ Range(last.value.metadata_columns) =
             ColumnNames(last.args.columns)
                 \ (Range(last.args.a.ignore_metadata_columns.v) \cup Designated(last.value))
        /\ Cardinality(Range(InsertColumns(last.value))) = Len(InsertColumns(last.value))

\* C25 with the JSON metadata column counted among the derived columns
C25_IgnoreList_JsonKept ==
    CreatedIgnoring =>
        Range(last.value.metadata_columns) =
            ColumnNames(last.args.columns)
                \ (Range(last.args.a.ignore_metadata_columns.v)
                     \cup {last.value.id_column, last.value.content_column,
                           last.value.embedding_column})

----------------------------------------------------------------------------
(* Connection discipline claims *)

\* the largest number of connections checked out at once over the events,
\* with `held` checked out before them
RECURSIVE Peak(_, _)
Peak(events, held) ==
    IF events = <<>> THEN held
    ELSE LET now == CASE Head(events).ev = "connect" -> held + 1
                      [] Head(events).ev = "release" -> held - 1
                      [] OTHER -> held
             later == Peak(Tail(events), now)
         IN  IF later > held THEN later ELSE held

\* the number of checkouts among the events
Checkouts(events) == Len(SelectSeq(events, LAMBDA e : e.ev = "connect"))

\* the events of the connections of the call that has ended
CallEvents == last.local.conn

\* a call that executed a statement has ended
DatabaseCall == ~Idle /\ last.log # <<>>

\* C27: every database operation of the store and of the engine holds at
\* most one connection at a time (a batch add one per record, each given
\* back before the next is taken), executes its statements on connections
\* of the pool, and has given back every connection by the time it returns
\* or raises, so that no connection is checked out between operations
C27_ConnectionDiscipline ==
    /\ pool.out = 0
    /\ DatabaseCall =>
         /\ Peak(CallEvents, 0) = 1
         /\ Range(last.log) \subseteq Range(Statements(CallEvents))
         /\ Head(CallEvents) = Connect
         /\ CallEvents[Len(CallEvents)] = Release
    /\ (last.op = "aadd_embeddings" /\ last.log # <<>>) =>
         Checkouts(CallEvents) = Cardinality({last.log[i].record : i \in DOMAIN last.log})

\* a batch add has raised at its second record, after the connection of the
\* first was given back
C27_Witness ==
    /\ last.op = "aadd_embeddings"
    /\ last.raised
    /\ Checkouts(CallEvents) = 2
    /\ pool.out = 0

\* an engine call has raised on a statement the backend rejects
C27_WitnessEngine ==
    /\ last.op = "init_vectorstore_table"
    /\ last.raised
    /\ last.log # <<>>
    /\ pool.out = 0

----------------------------------------------------------------------------
(* Binding claims *)

\* the records of the last aadd_embeddings call that no later record of the
\* call wrote over
LastWritten ==
    {i \in DOMAIN last.value \cap DOMAIN last.args.texts \cap DOMAIN last.args.embeddings :
        \A j \in DOMAIN last.value : j > i => last.value[j] # last.value[i]}

\* C30: whatever the names of the store's columns, aadd_embeddings writes the
\* record's id to the id column, the text to the content column, the
\* embedding to the embedding column, metadata[c] to every typed column c and
\* the remaining metadata to the JSON column: the row stored under the
\* record's id is the record, column by column
C30_BindingByColumn ==
    Added =>
        \A i \in LastWritten :
            RowsWithId(cfg, table, last.value[i]) =
                {RecordRow(cfg, last.value[i], last.args.texts[i],
                           last.args.embeddings[i], MetadataArg(i))}

\* C30 in the stores whose typed columns are not named like bind parameters
C30_BindingByColumn_PlainNames == PlainNames(cfg) => C30_BindingByColumn

----------------------------------------------------------------------------
(* Interleaving claims *)

\* the records the tasks have committed, as <<task, record>>
Writes == {w \in (DOMAIN tasks) \X (1..MaxBatch) : w[2] \in tasks[w[1]].written}

\* the id a committed record was written under
IdOf(w) == tasks[w[1]].ids[w[2]]

\* the record is the last one its call committed under its id
LastOfItsCall(w) ==
    \A v \in Writes : (v[1] = w[1] /\ IdOf(v) = IdOf(w)) => v[2] <= w[2]

\* the row a committed record is to be stored as
RecordOf(w) ==
    LET t == tasks[w[1]]
    IN  RecordRow(cfg, t.ids[w[2]], t.texts[w[2]], t.embeddings[w[2]], t.metadatas[w[2]])

\* at least two calls were started and every call has finished
CallsFinished == Len(tasks) >= 2 /\ \A n \in DOMAIN tasks : Finished(tasks[n])

\* C29: once interleaved aadd_embeddings calls have finished, the table holds
\* exactly one row per distinct id written, and the row of an id equals, in
\* every column, the record of one of the calls that wrote the id (of the
\* only call when one call wrote it), never a mixture of several records
C29_InterleavedAdds ==
    CallsFinished =>
        /\ Cardinality(table) = Cardinality({IdOf(w) : w \in Writes})
        /\ \A w \in Writes :
              \E u \in Writes :
                  /\ IdOf(u) = IdOf(w)
                  /\ LastOfItsCall(u)
                  /\ RowsWithId(cfg, table, IdOf(w)) = {RecordOf(u)}

\* C29 in the stores whose typed columns are not named like bind parameters
C29_InterleavedAdds_PlainNames == PlainNames(cfg) => C29_InterleavedAdds

\* in those stores, the row of an id is the record of the call that has just
\* committed it: the later committer's, in whatever order the calls ran
C29_CommitterWins_PlainNames ==
    [][\A n \in DOMAIN tasks :
          (PlainNames(cfg) /\ tasks[n].at = "commit" /\ tasks'[n].at = "release") =>
              RowsWithId(cfg, table', tasks[n].ids[tasks[n].i]) = {RecordOf(<<n, tasks[n].i>>)}]_vars

\* two calls that wrote the same id with different records have both
\* finished, each having stood at an await while the other ran
C29_BothWroteOneId ==
    /\ CallsFinished
    /\ \E v, w \in Writes :
          /\ v[1] # w[1]
          /\ IdOf(v) = IdOf(w)
          /\ RecordOf(v) # RecordOf(w)

====
